---- MODULE Spec2Model ----
(***************************************************************************)
(* ofVec3d (src/src/ofVec3d.h): a three component vector of doubles.      *)
(*                                                                         *)
(* Numbers.  A double is modelled by an exact value q * sqrt(r), q a       *)
(* rational n/d in lowest terms and r a square-free positive integer,     *)
(* extended by the IEEE special values NaN, +Inf and -Inf (d = 0).        *)
(* Arithmetic follows IEEE 754 for the special values (x/0, 0/0, Inf-Inf, *)
(* comparisons with NaN); rounding, underflow and the sign of zero are    *)
(* not modelled.  A sum of two values with different radicals and a       *)
(* square root of a non rational value have no representation: the       *)
(* operators are undefined there (CASE without OTHER) and the input sets  *)
(* of the specifications keep the computations inside the exact domain.  *)
(* Angles in radians are kept in units of pi.                             *)
(***************************************************************************)
EXTENDS Integers, Sequences, FiniteSets, TLC

\* mem: the fields of the objects; pc: "ready" before a call, "done" after it;
\* call, old, ret: the latest call, the memory before it and what it returned;
\* first: the memory after construction; hist: the calls made so far;
\* stream: the text stream that operator<< writes to and operator>> reads from
VARIABLES mem, pc, call, old, ret, first, hist, stream

vars == <<mem, pc, call, old, ret, first, hist, stream>>

(***************************************************************************)
(* Bounds of the input sets.                                               *)
(***************************************************************************)
\* the components of object a are drawn from -MaxCoord..MaxCoord
MaxCoord == 2
\* the components of object b, and of both objects in the angle calls, are
\* drawn from -MaxArg..MaxArg
MaxArg == 1
\* the calls made in a sequence of calls
MaxCalls == 4
\* the elements of an array of points
MaxPoints == 3

(***************************************************************************)
(* double                                                                  *)
(***************************************************************************)
RECURSIVE Gcd(_, _)
Gcd(a, b) == IF b = 0 THEN a ELSE Gcd(b, a % b)

Abs(i) == IF i < 0 THEN -i ELSE i

\* the largest s >= from with s*s dividing m (m > 0)
RECURSIVE SquarePart(_, _, _)
SquarePart(m, s, best) ==
    IF s * s > m THEN best
    ELSE SquarePart(m, s + 1, IF m % (s * s) = 0 THEN s ELSE best)

NaN  == [n |-> 0, d |-> 0, r |-> 1]
PInf == [n |-> 1, d |-> 0, r |-> 1]
NInf == [n |-> -1, d |-> 0, r |-> 1]

\* the representations of doubles
Double == [n : Int, d : Nat, r : Nat]

\* the double (n/d)*sqrt(r) in canonical form; d # 0, r > 0
Mk(n, d, r) ==
    IF n = 0 THEN [n |-> 0, d |-> 1, r |-> 1]
    ELSE LET s  == SquarePart(r, 1, 1)
             n1 == n * s * (IF d < 0 THEN -1 ELSE 1)
             d1 == Abs(d)
             g  == Gcd(Abs(n1), d1)
         IN  [n |-> n1 \div g, d |-> d1 \div g, r |-> r \div (s * s)]

Q(n, d) == Mk(n, d, 1)
I(n) == [n |-> n, d |-> 1, r |-> 1]

IsNaN(a) == a.d = 0 /\ a.n = 0
IsInf(a) == a.d = 0 /\ a.n # 0
IsFinite(a) == a.d # 0
IsZero(a) == a.d # 0 /\ a.n = 0
Sign(a) == IF a.n > 0 THEN 1 ELSE IF a.n < 0 THEN -1 ELSE 0

Neg(a) == [a EXCEPT !.n = -a.n]

Fabs(a) == [a EXCEPT !.n = Abs(a.n)]

AddF[a \in Double, b \in Double] ==
    CASE IsNaN(a) \/ IsNaN(b) -> NaN
      [] IsInf(a) /\ IsInf(b) -> IF a.n = b.n THEN a ELSE NaN
      [] IsInf(a) /\ IsFinite(b) -> a
      [] IsFinite(a) /\ IsInf(b) -> b
      [] IsFinite(a) /\ IsFinite(b) /\ IsZero(a) -> b
      [] IsFinite(a) /\ IsFinite(b) /\ ~IsZero(a) /\ IsZero(b) -> a
      [] IsFinite(a) /\ IsFinite(b) /\ ~IsZero(a) /\ ~IsZero(b) /\ a.r = b.r ->
            Mk(a.n * b.d + b.n * a.d, a.d * b.d, a.r)

Add(a, b) == AddF[a, b]

Sub(a, b) == Add(a, Neg(b))

MulF[a \in Double, b \in Double] ==
    CASE IsNaN(a) \/ IsNaN(b) -> NaN
      [] ~IsNaN(a) /\ ~IsNaN(b) /\ (IsInf(a) \/ IsInf(b)) ->
            IF IsZero(a) \/ IsZero(b) THEN NaN
            ELSE IF Sign(a) * Sign(b) > 0 THEN PInf ELSE NInf
      [] IsFinite(a) /\ IsFinite(b) -> Mk(a.n * b.n, a.d * b.d, a.r * b.r)

Mul(a, b) == MulF[a, b]

DivF[a \in Double, b \in Double] ==
    CASE IsNaN(a) \/ IsNaN(b) -> NaN
      [] ~IsNaN(a) /\ IsInf(b) -> IF IsInf(a) THEN NaN ELSE I(0)
      [] IsInf(a) /\ IsFinite(b) ->
            IF Sign(b) < 0 THEN Neg(a) ELSE a
      [] IsFinite(a) /\ IsZero(b) ->
            IF IsZero(a) THEN NaN ELSE IF Sign(a) > 0 THEN PInf ELSE NInf
      [] IsFinite(a) /\ IsFinite(b) /\ ~IsZero(b) ->
            \* 1/(q*sqrt(r)) = sqrt(r)/(q*r)
            Mk(a.n * b.d, a.d * b.n * b.r, a.r * b.r)

Div(a, b) == DivF[a, b]

\* a*a as a rational, for comparing magnitudes of finite values
SqNum(a) == a.n * a.n * a.r
SqDen(a) == a.d * a.d

\* a < b
LessF[a \in Double, b \in Double] ==
    CASE IsNaN(a) \/ IsNaN(b) -> FALSE
      [] ~IsNaN(a) /\ ~IsNaN(b) /\ (IsInf(a) \/ IsInf(b)) ->
            /\ a # b
            /\ (a = NInf \/ b = PInf)
      [] IsFinite(a) /\ IsFinite(b) ->
            IF a.r = b.r THEN a.n * b.d < b.n * a.d
            ELSE IF Sign(a) # Sign(b) THEN Sign(a) < Sign(b)
            ELSE IF Sign(a) > 0
                 THEN SqNum(a) * SqDen(b) < SqNum(b) * SqDen(a)
                 ELSE SqNum(a) * SqDen(b) > SqNum(b) * SqDen(a)

Less(a, b) == LessF[a, b]

Greater(a, b) == Less(b, a)

\* a == b
Eq(a, b) == ~IsNaN(a) /\ ~IsNaN(b) /\ a = b

\* a != b
Neq(a, b) == ~Eq(a, b)

\* sqrt(a), a rational or special
SqrtF[a \in Double] ==
    CASE IsNaN(a) -> NaN
      [] IsInf(a) -> IF a.n > 0 THEN PInf ELSE NaN
      [] IsFinite(a) /\ a.n < 0 -> NaN
      [] IsFinite(a) /\ a.n = 0 -> a
      [] IsFinite(a) /\ a.n > 0 /\ a.r = 1 -> Mk(1, a.d, a.n * a.d)

Sqrt(a) == SqrtF[a]

\* the quarter turns in an angle of t*pi radians, t a multiple of 1/2
QuarterTurns(t) == ((2 * t.n) \div t.d) % 4

IsQuarterAngle(t) == IsFinite(t) /\ t.r = 1 /\ (2 * t.n) % t.d = 0

\* sin of t*pi radians
Sin(t) ==
    CASE ~IsFinite(t) -> NaN
      [] IsQuarterAngle(t) /\ QuarterTurns(t) \in {0, 2} -> I(0)
      [] IsQuarterAngle(t) /\ QuarterTurns(t) = 1 -> I(1)
      [] IsQuarterAngle(t) /\ QuarterTurns(t) = 3 -> I(-1)

\* cos of t*pi radians
Cos(t) ==
    CASE ~IsFinite(t) -> NaN
      [] IsQuarterAngle(t) /\ QuarterTurns(t) \in {1, 3} -> I(0)
      [] IsQuarterAngle(t) /\ QuarterTurns(t) = 0 -> I(1)
      [] IsQuarterAngle(t) /\ QuarterTurns(t) = 2 -> I(-1)

\* the cosines whose arc cosine is a rational multiple of pi, with that multiple
AcosTable ==
    { <<I(1), I(0)>>, <<I(0), Q(1, 2)>>, <<I(-1), I(1)>>,
      <<Q(1, 2), Q(1, 3)>>, <<Q(-1, 2), Q(2, 3)>>,
      <<Mk(1, 2, 2), Q(1, 4)>>, <<Mk(-1, 2, 2), Q(3, 4)>>,
      <<Mk(1, 2, 3), Q(1, 6)>>, <<Mk(-1, 2, 3), Q(5, 6)>> }

InAcosTable(c) == \E e \in AcosTable : e[1] = c

\* acos(c) in units of pi; NaN outside [-1, 1]
Acos(c) ==
    CASE IsNaN(c) -> NaN
      [] ~IsNaN(c) /\ (Less(I(1), c) \/ Less(c, I(-1))) -> NaN
      [] InAcosTable(c) -> (CHOOSE e \in AcosTable : e[1] = c)[2]

\* ofConstants.h: PI/180 and 180/PI, radians in units of pi
DEG_TO_RAD == Q(1, 180)
RAD_TO_DEG == I(180)

(***************************************************************************)
(* ofVec3d values, objects and arguments                                   *)
(***************************************************************************)
Vec(x, y, z) == [x |-> x, y |-> y, z |-> z]

\* ofVec3d(): x(0), y(0), z(0)
ofVec3d == Vec(I(0), I(0), I(0))

IVec(x, y, z) == Vec(I(x), I(y), I(z))

\* the ofVec3d objects of the program
Obj == {"a", "b"}

\* a const ofVec3d& argument: one of the objects, or a temporary holding val
Ref(o) == [ref |-> o, val |-> ofVec3d]
Tmp(v) == [ref |-> "tmp", val |-> v]

\* the value an argument refers to in memory m
Rd(m, p) == IF p.ref = "tmp" THEN p.val ELSE m[p.ref]

\* bool operator==( const ofVec3d& vec )
operatorEq(v, w) == Eq(v.x, w.x) /\ Eq(v.y, w.y) /\ Eq(v.z, w.z)

\* bool operator!=( const ofVec3d& vec )
operatorNeq(v, w) == Neq(v.x, w.x) \/ Neq(v.y, w.y) \/ Neq(v.z, w.z)

\* double length() const
length(v) == Sqrt(Add(Add(Mul(v.x, v.x), Mul(v.y, v.y)), Mul(v.z, v.z)))

\* double lengthSquared() const
lengthSquared(v) == Add(Add(Mul(v.x, v.x), Mul(v.y, v.y)), Mul(v.z, v.z))

\* double dot( const ofVec3d& vec ) const
dot(v, w) == Add(Add(Mul(v.x, w.x), Mul(v.y, w.y)), Mul(v.z, w.z))

\* getCrossed with the second component z*vec.x + x*vec.z
getCrossed_YSum(v, w) ==
    Vec(Sub(Mul(v.y, w.z), Mul(v.z, w.y)),
        Add(Mul(v.z, w.x), Mul(v.x, w.z)),
        Sub(Mul(v.x, w.y), Mul(v.y, w.x)))

\* ofVec3d getCrossed( const ofVec3d& vec ) const
getCrossed(v, w) ==
    Vec(Sub(Mul(v.y, w.z), Mul(v.z, w.y)),
        Sub(Mul(v.z, w.x), Mul(v.x, w.z)),
        Sub(Mul(v.x, w.y), Mul(v.y, w.x)))

(***************************************************************************)
(* operator/ and operator/=                                                *)
(***************************************************************************)
\* ofVec3d operator/( const ofVec3d& vec ) const
operatorDiv(v, w) ==
    Vec(IF Neq(w.x, I(0)) THEN Div(v.x, w.x) ELSE v.x,
        IF Neq(w.y, I(0)) THEN Div(v.y, w.y) ELSE v.y,
        IF Neq(w.z, I(0)) THEN Div(v.z, w.z) ELSE v.z)

\* operator/= dividing y without the test of vec.y
operatorDivAssign_NoZeroTest(m, this, vec) ==
    LET m1 == IF Neq(Rd(m, vec).x, I(0))
              THEN [m EXCEPT ![this].x = Div(m[this].x, Rd(m, vec).x)] ELSE m
        m2 == [m1 EXCEPT ![this].y = Div(m1[this].y, Rd(m1, vec).y)]
        m3 == IF Neq(Rd(m2, vec).z, I(0))
              THEN [m2 EXCEPT ![this].z = Div(m2[this].z, Rd(m2, vec).z)] ELSE m2
    IN  m3

\* ofVec3d& operator/=( const ofVec3d& vec ): the memory after the call
operatorDivAssign(m, this, vec) ==
    LET m1 == IF Neq(Rd(m, vec).x, I(0))
              THEN [m EXCEPT ![this].x = Div(m[this].x, Rd(m, vec).x)] ELSE m
        m2 == IF Neq(Rd(m1, vec).y, I(0))
              THEN [m1 EXCEPT ![this].y = Div(m1[this].y, Rd(m1, vec).y)] ELSE m1
        m3 == IF Neq(Rd(m2, vec).z, I(0))
              THEN [m2 EXCEPT ![this].z = Div(m2[this].z, Rd(m2, vec).z)] ELSE m2
    IN  m3

\* operator/(double) without the test of f
operatorDivScalar_NoZeroTest(v, f) ==
    Vec(Div(v.x, f), Div(v.y, f), Div(v.z, f))

\* ofVec3d operator/( const double f ) const
operatorDivScalar(v, f) ==
    IF Eq(f, I(0)) THEN Vec(v.x, v.y, v.z)
    ELSE Vec(Div(v.x, f), Div(v.y, f), Div(v.z, f))

\* ofVec3d& operator/=( const double f ): the memory after the call
operatorDivAssignScalar(m, this, f) ==
    IF Eq(f, I(0)) THEN m
    ELSE LET m1 == [m EXCEPT ![this].x = Div(m[this].x, f)]
             m2 == [m1 EXCEPT ![this].y = Div(m1[this].y, f)]
             m3 == [m2 EXCEPT ![this].z = Div(m2[this].z, f)]
         IN  m3


(***************************************************************************)
(* scale, normalize, limit                                                 *)
(***************************************************************************)
\* getScaled multiplying before dividing by l, z left unscaled
getScaled_ZUnscaled(v, len) ==
    LET l == Sqrt(Add(Add(Mul(v.x, v.x), Mul(v.y, v.y)), Mul(v.z, v.z)))
    IN  IF Greater(l, I(0))
        THEN Vec(Mul(Div(v.x, l), len), Mul(Div(v.y, l), len), v.z)
        ELSE ofVec3d

\* ofVec3d getScaled( const double length ) const
getScaled(v, len) ==
    LET l == Sqrt(Add(Add(Mul(v.x, v.x), Mul(v.y, v.y)), Mul(v.z, v.z)))
    IN  IF Greater(l, I(0))
        THEN Vec(Mul(Div(v.x, l), len), Mul(Div(v.y, l), len), Mul(Div(v.z, l), len))
        ELSE ofVec3d

\* ofVec3d& scale( const double length ): the memory after the call
scale(m, this, len) ==
    LET l == Sqrt(Add(Add(Mul(m[this].x, m[this].x), Mul(m[this].y, m[this].y)),
                      Mul(m[this].z, m[this].z)))
    IN  IF Greater(l, I(0))
        THEN LET m1 == [m EXCEPT ![this].x = Mul(Div(m[this].x, l), len)]
                 m2 == [m1 EXCEPT ![this].y = Mul(Div(m1[this].y, l), len)]
                 m3 == [m2 EXCEPT ![this].z = Mul(Div(m2[this].z, l), len)]
             IN  m3
        ELSE m

\* getNormalized dividing by the squared length
getNormalized_BySquare(v) ==
    LET len == Add(Add(Mul(v.x, v.x), Mul(v.y, v.y)), Mul(v.z, v.z))
    IN  IF Greater(len, I(0))
        THEN Vec(Div(v.x, len), Div(v.y, len), Div(v.z, len))
        ELSE ofVec3d

\* getNormalized dividing by the length without the test length > 0
getNormalized_NoLengthTest(v) ==
    LET len == Sqrt(Add(Add(Mul(v.x, v.x), Mul(v.y, v.y)), Mul(v.z, v.z)))
    IN  Vec(Div(v.x, len), Div(v.y, len), Div(v.z, len))

\* ofVec3d getNormalized() const
getNormalized(v) ==
    LET len == Sqrt(Add(Add(Mul(v.x, v.x), Mul(v.y, v.y)), Mul(v.z, v.z)))
    IN  IF Greater(len, I(0))
        THEN Vec(Div(v.x, len), Div(v.y, len), Div(v.z, len))
        ELSE ofVec3d

\* ofVec3d& normalize(): the memory after the call
normalize(m, this) ==
    LET len == Sqrt(Add(Add(Mul(m[this].x, m[this].x), Mul(m[this].y, m[this].y)),
                        Mul(m[this].z, m[this].z)))
    IN  IF Greater(len, I(0))
        THEN LET m1 == [m EXCEPT ![this].x = Div(m[this].x, len)]
                 m2 == [m1 EXCEPT ![this].y = Div(m1[this].y, len)]
                 m3 == [m2 EXCEPT ![this].z = Div(m2[this].z, len)]
             IN  m3
        ELSE m

\* limit comparing the squared length with max instead of max*max
limit_CompareMax(m, this, max) ==
    LET lsq == Add(Add(Mul(m[this].x, m[this].x), Mul(m[this].y, m[this].y)),
                   Mul(m[this].z, m[this].z))
    IN  IF Greater(lsq, max) /\ Greater(lsq, I(0))
        THEN LET ratio == Div(max, Sqrt(lsq))
                 m1 == [m EXCEPT ![this].x = Mul(m[this].x, ratio)]
                 m2 == [m1 EXCEPT ![this].y = Mul(m1[this].y, ratio)]
                 m3 == [m2 EXCEPT ![this].z = Mul(m2[this].z, ratio)]
             IN  m3
        ELSE m

\* mutant of getLimited: x is not multiplied by the ratio
getLimited_XUnscaled(v, max) ==
    LET lsq == Add(Add(Mul(v.x, v.x), Mul(v.y, v.y)), Mul(v.z, v.z))
    IN  IF Greater(lsq, Mul(max, max)) /\ Greater(lsq, I(0))
        THEN LET ratio == Div(max, Sqrt(lsq))
             IN  Vec(v.x, Mul(v.y, ratio), Mul(v.z, ratio))
        ELSE Vec(v.x, v.y, v.z)

\* ofVec3d getLimited(double max) const
getLimited(v, max) ==
    LET lsq == Add(Add(Mul(v.x, v.x), Mul(v.y, v.y)), Mul(v.z, v.z))
    IN  IF Greater(lsq, Mul(max, max)) /\ Greater(lsq, I(0))
        THEN LET ratio == Div(max, Sqrt(lsq))
             IN  Vec(Mul(v.x, ratio), Mul(v.y, ratio), Mul(v.z, ratio))
        ELSE Vec(v.x, v.y, v.z)

\* ofVec3d& limit(double max): the memory after the call
limit(m, this, max) ==
    LET lsq == Add(Add(Mul(m[this].x, m[this].x), Mul(m[this].y, m[this].y)),
                   Mul(m[this].z, m[this].z))
    IN  IF Greater(lsq, Mul(max, max)) /\ Greater(lsq, I(0))
        THEN LET ratio == Div(max, Sqrt(lsq))
                 m1 == [m EXCEPT ![this].x = Mul(m[this].x, ratio)]
                 m2 == [m1 EXCEPT ![this].y = Mul(m1[this].y, ratio)]
                 m3 == [m2 EXCEPT ![this].z = Mul(m2[this].z, ratio)]
             IN  m3
        ELSE m

(***************************************************************************)
(* rotate, map                                                             *)
(***************************************************************************)
\* x = nx; y = ny; z = nz;
Store(m, this, nx, ny, nz) ==
    [[[m EXCEPT ![this].x = nx] EXCEPT ![this].y = ny] EXCEPT ![this].z = nz]

\* x*(ax.x*ax.x*cosb + cosa) + y*(ax.x*ax.y*cosb - ax.z*sina)
\*                           + z*(ax.x*ax.z*cosb + ax.y*sina)
RotX(x, y, z, ax, sina, cosa, cosb) ==
    Add(Add(Mul(x, Add(Mul(Mul(ax.x, ax.x), cosb), cosa)),
            Mul(y, Sub(Mul(Mul(ax.x, ax.y), cosb), Mul(ax.z, sina)))),
        Mul(z, Add(Mul(Mul(ax.x, ax.z), cosb), Mul(ax.y, sina))))

\* x*(ax.y*ax.x*cosb + ax.z*sina) + y*(ax.y*ax.y*cosb + cosa)
\*                                + z*(ax.y*ax.z*cosb - ax.x*sina)
RotY(x, y, z, ax, sina, cosa, cosb) ==
    Add(Add(Mul(x, Add(Mul(Mul(ax.y, ax.x), cosb), Mul(ax.z, sina))),
            Mul(y, Add(Mul(Mul(ax.y, ax.y), cosb), cosa))),
        Mul(z, Sub(Mul(Mul(ax.y, ax.z), cosb), Mul(ax.x, sina))))

\* x*(ax.z*ax.x*cosb - ax.y*sina) + y*(ax.z*ax.y*cosb + ax.x*sina)
\*                                + z*(ax.z*ax.z*cosb + cosa)
RotZ(x, y, z, ax, sina, cosa, cosb) ==
    Add(Add(Mul(x, Sub(Mul(Mul(ax.z, ax.x), cosb), Mul(ax.y, sina))),
            Mul(y, Add(Mul(Mul(ax.z, ax.y), cosb), Mul(ax.x, sina)))),
        Mul(z, Add(Mul(Mul(ax.z, ax.z), cosb), cosa)))

\* return ofVec3d( ..., ..., ... ) of getRotated( angle, axis )
getRotatedBy(v, ax, sina, cosa, cosb) ==
    Vec(RotX(v.x, v.y, v.z, ax, sina, cosa, cosb),
        RotY(v.x, v.y, v.z, ax, sina, cosa, cosb),
        RotZ(v.x, v.y, v.z, ax, sina, cosa, cosb))

\* getRotated( angle, axis ) with the axis used as given, not normalized
getRotated_AxisNotNormalized(v, angle, axis) ==
    LET a == Mul(angle, DEG_TO_RAD)
    IN  getRotatedBy(v, axis, Sin(a), Cos(a), Sub(I(1), Cos(a)))

\* ofVec3d getRotated( double angle, const ofVec3d& axis ) const
getRotated(v, angle, axis) ==
    LET a == Mul(angle, DEG_TO_RAD)
    IN  getRotatedBy(v, getNormalized(axis), Sin(a), Cos(a), Sub(I(1), Cos(a)))

\* nx, ny, nz computed from x, y, z, then x = nx; y = ny; z = nz;
rotateBy(m, this, ax, sina, cosa, cosb) ==
    Store(m, this,
          RotX(m[this].x, m[this].y, m[this].z, ax, sina, cosa, cosb),
          RotY(m[this].x, m[this].y, m[this].z, ax, sina, cosa, cosb),
          RotZ(m[this].x, m[this].y, m[this].z, ax, sina, cosa, cosb))

\* ofVec3d& rotate( double angle, const ofVec3d& axis ): the memory after the call
rotate(m, this, angle, axis) ==
    LET a == Mul(angle, DEG_TO_RAD)
    IN  rotateBy(m, this, getNormalized(Rd(m, axis)), Sin(a), Cos(a), Sub(I(1), Cos(a)))

\* the Euler rotation composed the other way: about x first, then y, then z
getRotatedEuler_XFirst(v, ax, ay, az) ==
    getRotated(getRotated(getRotated(v, ax, IVec(1, 0, 0)), ay, IVec(0, 1, 0)),
               az, IVec(0, 0, 1))

\* ofVec3d getRotated(double ax, double ay, double az) const
getRotatedEuler(v, ax, ay, az) ==
    LET a == Cos(Mul(DEG_TO_RAD, ax))
        b == Sin(Mul(DEG_TO_RAD, ax))
        c == Cos(Mul(DEG_TO_RAD, ay))
        d == Sin(Mul(DEG_TO_RAD, ay))
        e == Cos(Mul(DEG_TO_RAD, az))
        f == Sin(Mul(DEG_TO_RAD, az))
    IN  Vec(Add(Sub(Mul(Mul(c, e), v.x),
                    Mul(Mul(c, f), v.y)),
                Mul(d, v.z)),
            Sub(Add(Mul(Add(Mul(a, f), Mul(Mul(b, d), e)), v.x),
                    Mul(Sub(Mul(a, e), Mul(Mul(b, d), f)), v.y)),
                Mul(Mul(b, c), v.z)),
            Add(Add(Mul(Sub(Mul(b, f), Mul(Mul(a, d), e)), v.x),
                    Mul(Add(Mul(Mul(a, d), f), Mul(b, e)), v.y)),
                Mul(Mul(a, c), v.z)))

\* ofVec3d& rotate(double ax, double ay, double az): the memory after the call
rotateEuler(m, this, ax, ay, az) ==
    LET a == Cos(Mul(DEG_TO_RAD, ax))
        b == Sin(Mul(DEG_TO_RAD, ax))
        c == Cos(Mul(DEG_TO_RAD, ay))
        d == Sin(Mul(DEG_TO_RAD, ay))
        e == Cos(Mul(DEG_TO_RAD, az))
        f == Sin(Mul(DEG_TO_RAD, az))
    IN  Store(m, this,
              Add(Sub(Mul(Mul(c, e), m[this].x),
                      Mul(Mul(c, f), m[this].y)),
                  Mul(d, m[this].z)),
              Sub(Add(Mul(Add(Mul(a, f), Mul(Mul(b, d), e)), m[this].x),
                      Mul(Sub(Mul(a, e), Mul(Mul(b, d), f)), m[this].y)),
                  Mul(Mul(b, c), m[this].z)),
              Add(Add(Mul(Sub(Mul(b, f), Mul(Mul(a, d), e)), m[this].x),
                      Mul(Add(Mul(Mul(a, d), f), Mul(b, e)), m[this].y)),
                  Mul(Mul(a, c), m[this].z)))

\* xrot + pivot.x, yrot + pivot.y, zrot + pivot.z from tx, ty, tz
getRotatedPivotBy(tx, ty, tz, pivot, ax, sina, cosa, cosb) ==
    Vec(Add(RotX(tx, ty, tz, ax, sina, cosa, cosb), pivot.x),
        Add(RotY(tx, ty, tz, ax, sina, cosa, cosb), pivot.y),
        Add(RotZ(tx, ty, tz, ax, sina, cosa, cosb), pivot.z))

\* mutant of getRotated( angle, pivot, axis ): the pivot is not added back
getRotatedPivot_NotTranslatedBack(v, angle, pivot, axis) ==
    LET a == Mul(angle, DEG_TO_RAD)
    IN  getRotatedPivotBy(Sub(v.x, pivot.x), Sub(v.y, pivot.y), Sub(v.z, pivot.z),
                          ofVec3d, getNormalized(axis), Sin(a), Cos(a), Sub(I(1), Cos(a)))

\* ofVec3d getRotated( double angle, const ofVec3d& pivot, const ofVec3d& axis ) const
getRotatedPivot(v, angle, pivot, axis) ==
    LET a == Mul(angle, DEG_TO_RAD)
    IN  getRotatedPivotBy(Sub(v.x, pivot.x), Sub(v.y, pivot.y), Sub(v.z, pivot.z),
                          pivot, getNormalized(axis), Sin(a), Cos(a), Sub(I(1), Cos(a)))

\* x -= pivot.x; y -= pivot.y; z -= pivot.z; pivot read through the reference
SubPivot(m, this, pivot) ==
    LET k1 == [m EXCEPT ![this].x = Sub(m[this].x, Rd(m, pivot).x)]
        k2 == [k1 EXCEPT ![this].y = Sub(k1[this].y, Rd(k1, pivot).y)]
        k3 == [k2 EXCEPT ![this].z = Sub(k2[this].z, Rd(k2, pivot).z)]
    IN  k3

\* x = xrot + pivot.x; y = yrot + pivot.y; z = zrot + pivot.z; pivot read
\* through the reference
AddPivot(m, this, pivot, xrot, yrot, zrot) ==
    LET k1 == [m EXCEPT ![this].x = Add(xrot, Rd(m, pivot).x)]
        k2 == [k1 EXCEPT ![this].y = Add(yrot, Rd(k1, pivot).y)]
        k3 == [k2 EXCEPT ![this].z = Add(zrot, Rd(k2, pivot).z)]
    IN  k3

\* xrot, yrot, zrot computed from the shifted x, y, z, then the pivot added back
rotatePivotBy(m, this, pivot, ax, sina, cosa, cosb) ==
    AddPivot(m, this, pivot,
             RotX(m[this].x, m[this].y, m[this].z, ax, sina, cosa, cosb),
             RotY(m[this].x, m[this].y, m[this].z, ax, sina, cosa, cosb),
             RotZ(m[this].x, m[this].y, m[this].z, ax, sina, cosa, cosb))

\* ofVec3d& rotate( double angle, const ofVec3d& pivot, const ofVec3d& axis ):
\* the memory after the call; ax is taken from the axis before the shift
rotatePivot(m, this, angle, pivot, axis) ==
    LET a == Mul(angle, DEG_TO_RAD)
    IN  rotatePivotBy(SubPivot(m, this, pivot), this, pivot,
                      getNormalized(Rd(m, axis)), Sin(a), Cos(a), Sub(I(1), Cos(a)))

\* mutant of getMapped: the origin is not added
getMapped_NoOrigin(v, origin, vx, vy, vz) ==
    Vec(Add(Add(Mul(v.x, vx.x), Mul(v.y, vy.x)), Mul(v.z, vz.x)),
        Add(Add(Mul(v.x, vx.y), Mul(v.y, vy.y)), Mul(v.z, vz.y)),
        Add(Add(Mul(v.x, vx.z), Mul(v.y, vy.z)), Mul(v.z, vz.z)))

\* ofVec3d getMapped( origin, vx, vy, vz ) const
getMapped(v, origin, vx, vy, vz) ==
    Vec(Add(Add(Add(origin.x, Mul(v.x, vx.x)),
                Mul(v.y, vy.x)),
            Mul(v.z, vz.x)),
        Add(Add(Add(origin.y, Mul(v.x, vx.y)),
                Mul(v.y, vy.y)),
            Mul(v.z, vz.y)),
        Add(Add(Add(origin.z, Mul(v.x, vx.z)),
                Mul(v.y, vy.z)),
            Mul(v.z, vz.z)))

\* z = ...; x = xmap; y = ymap;
StoreZXY(m, this, zmap, xmap, ymap) ==
    [[[m EXCEPT ![this].z = zmap] EXCEPT ![this].x = xmap] EXCEPT ![this].y = ymap]

\* ofVec3d& map( origin, vx, vy, vz ): the memory after the call; xmap and
\* ymap are computed, z is assigned from the unchanged x, y, z, then x and y
map(m, this, origin, vx, vy, vz) ==
    StoreZXY(m, this,
             Add(Add(Add(Rd(m, origin).z, Mul(m[this].x, Rd(m, vx).z)),
                     Mul(m[this].y, Rd(m, vy).z)),
                 Mul(m[this].z, Rd(m, vz).z)),
             Add(Add(Add(Rd(m, origin).x, Mul(m[this].x, Rd(m, vx).x)),
                     Mul(m[this].y, Rd(m, vy).x)),
                 Mul(m[this].z, Rd(m, vz).x)),
             Add(Add(Add(Rd(m, origin).y, Mul(m[this].x, Rd(m, vx).y)),
                     Mul(m[this].y, Rd(m, vy).y)),
                 Mul(m[this].z, Rd(m, vz).y)))

(***************************************************************************)
(* match, operator+ - *, interpolate, middle, cross, perpendicular         *)
(***************************************************************************)
\* match testing with <= instead of <
match_NonStrict(v, vec, tolerance) ==
    /\ ~Less(tolerance, Fabs(Sub(v.x, vec.x)))
    /\ ~Less(tolerance, Fabs(Sub(v.y, vec.y)))
    /\ ~Less(tolerance, Fabs(Sub(v.z, vec.z)))

\* mutant of match: the z difference is compared without fabs
match_ZSigned(v, vec, tolerance) ==
    /\ Less(Fabs(Sub(v.x, vec.x)), tolerance)
    /\ Less(Fabs(Sub(v.y, vec.y)), tolerance)
    /\ Less(Sub(v.z, vec.z), tolerance)

\* bool match( const ofVec3d& vec, double tolerance ) const
match(v, vec, tolerance) ==
    /\ Less(Fabs(Sub(v.x, vec.x)), tolerance)
    /\ Less(Fabs(Sub(v.y, vec.y)), tolerance)
    /\ Less(Fabs(Sub(v.z, vec.z)), tolerance)

\* ofVec3d operator+( const ofVec3d& pnt ) const
operatorAdd(v, pnt) == Vec(Add(v.x, pnt.x), Add(v.y, pnt.y), Add(v.z, pnt.z))

\* ofVec3d operator-( const ofVec3d& vec ) const
operatorSub(v, vec) == Vec(Sub(v.x, vec.x), Sub(v.y, vec.y), Sub(v.z, vec.z))

\* ofVec3d operator-() const
operatorNeg(v) == Vec(Neg(v.x), Neg(v.y), Neg(v.z))

\* ofVec3d operator+( const double f ) const
operatorAddScalar(v, f) == Vec(Add(v.x, f), Add(v.y, f), Add(v.z, f))

\* ofVec3d operator-( const double f ) const
operatorSubScalar(v, f) == Vec(Sub(v.x, f), Sub(v.y, f), Sub(v.z, f))

\* operator*(double) leaving z as it is
operatorMulScalar_ZUnscaled(v, f) == Vec(Mul(v.x, f), Mul(v.y, f), v.z)

\* ofVec3d operator*( const double f ) const
operatorMulScalar(v, f) == Vec(Mul(v.x, f), Mul(v.y, f), Mul(v.z, f))

\* getInterpolated with the weights p and 1-p exchanged
getInterpolated_Swapped(v, pnt, p) ==
    Vec(Add(Mul(v.x, p), Mul(pnt.x, Sub(I(1), p))),
        Add(Mul(v.y, p), Mul(pnt.y, Sub(I(1), p))),
        Add(Mul(v.z, p), Mul(pnt.z, Sub(I(1), p))))

\* ofVec3d getInterpolated( const ofVec3d& pnt, double p ) const
getInterpolated(v, pnt, p) ==
    Vec(Add(Mul(v.x, Sub(I(1), p)), Mul(pnt.x, p)),
        Add(Mul(v.y, Sub(I(1), p)), Mul(pnt.y, p)),
        Add(Mul(v.z, Sub(I(1), p)), Mul(pnt.z, p)))

\* ofVec3d& interpolate( const ofVec3d& pnt, double p ): the memory after the
\* call; pnt is read through the reference at each assignment
interpolate(m, this, pnt, p) ==
    LET m1 == [m EXCEPT ![this].x =
                  Add(Mul(m[this].x, Sub(I(1), p)), Mul(Rd(m, pnt).x, p))]
        m2 == [m1 EXCEPT ![this].y =
                  Add(Mul(m1[this].y, Sub(I(1), p)), Mul(Rd(m1, pnt).y, p))]
        m3 == [m2 EXCEPT ![this].z =
                  Add(Mul(m2[this].z, Sub(I(1), p)), Mul(Rd(m2, pnt).z, p))]
    IN  m3

\* ofVec3d getMiddle( const ofVec3d& pnt ) const
getMiddle(v, pnt) ==
    Vec(Div(Add(v.x, pnt.x), I(2)), Div(Add(v.y, pnt.y), I(2)),
        Div(Add(v.z, pnt.z), I(2)))

\* middle dividing by 3.0
middle_Third(m, this, pnt) ==
    LET m1 == [m EXCEPT ![this].x = Div(Add(m[this].x, Rd(m, pnt).x), I(3))]
        m2 == [m1 EXCEPT ![this].y = Div(Add(m1[this].y, Rd(m1, pnt).y), I(3))]
        m3 == [m2 EXCEPT ![this].z = Div(Add(m2[this].z, Rd(m2, pnt).z), I(3))]
    IN  m3

\* ofVec3d& middle( const ofVec3d& pnt ): the memory after the call
middle(m, this, pnt) ==
    LET m1 == [m EXCEPT ![this].x = Div(Add(m[this].x, Rd(m, pnt).x), I(2))]
        m2 == [m1 EXCEPT ![this].y = Div(Add(m1[this].y, Rd(m1, pnt).y), I(2))]
        m3 == [m2 EXCEPT ![this].z = Div(Add(m2[this].z, Rd(m2, pnt).z), I(2))]
    IN  m3

\* cross with _y = z*vec.x + x*vec.z
cross_YSum(m, this, vec) ==
    StoreZXY(m, this,
             Sub(Mul(m[this].x, Rd(m, vec).y), Mul(m[this].y, Rd(m, vec).x)),
             Sub(Mul(m[this].y, Rd(m, vec).z), Mul(m[this].z, Rd(m, vec).y)),
             Add(Mul(m[this].z, Rd(m, vec).x), Mul(m[this].x, Rd(m, vec).z)))

\* ofVec3d& cross( const ofVec3d& vec ): the memory after the call; _x and _y
\* are computed, z is assigned from the unchanged x, y, then x = _x; y = _y;
cross(m, this, vec) ==
    StoreZXY(m, this,
             Sub(Mul(m[this].x, Rd(m, vec).y), Mul(m[this].y, Rd(m, vec).x)),
             Sub(Mul(m[this].y, Rd(m, vec).z), Mul(m[this].z, Rd(m, vec).y)),
             Sub(Mul(m[this].z, Rd(m, vec).x), Mul(m[this].x, Rd(m, vec).z)))

\* crossX/length, crossY/length, crossZ/length when length > 0, else zero
PerpendicularOf(crossX, crossY, crossZ, len) ==
    IF Greater(len, I(0))
    THEN Vec(Div(crossX, len), Div(crossY, len), Div(crossZ, len))
    ELSE ofVec3d

\* getPerpendicular dividing by the length without the test length > 0
getPerpendicular_NoLengthTest(v, vec) ==
    Vec(Div(getCrossed(v, vec).x, length(getCrossed(v, vec))),
        Div(getCrossed(v, vec).y, length(getCrossed(v, vec))),
        Div(getCrossed(v, vec).z, length(getCrossed(v, vec))))

\* ofVec3d getPerpendicular( const ofVec3d& vec ) const
getPerpendicular(v, vec) ==
    PerpendicularOf(Sub(Mul(v.y, vec.z), Mul(v.z, vec.y)),
                    Sub(Mul(v.z, vec.x), Mul(v.x, vec.z)),
                    Sub(Mul(v.x, vec.y), Mul(v.y, vec.x)),
                    length(getCrossed(v, vec)))

\* ofVec3d& perpendicular( const ofVec3d& vec ): the memory after the call;
\* crossX, crossY, crossZ and length are computed before x, y, z are assigned
perpendicular(m, this, vec) ==
    [m EXCEPT ![this] = getPerpendicular(m[this], Rd(m, vec))]

\* ofVec3d operator+( double f, const ofVec3d& vec )
scalarAdd(f, vec) == Vec(Add(f, vec.x), Add(f, vec.y), Add(f, vec.z))

\* operator-( double f, const ofVec3d& vec ) computed as the member vec - f
scalarSub_AsMember(f, vec) == Vec(Sub(vec.x, f), Sub(vec.y, f), Sub(vec.z, f))

\* ofVec3d operator-( double f, const ofVec3d& vec )
scalarSub(f, vec) == Vec(Sub(f, vec.x), Sub(f, vec.y), Sub(f, vec.z))

\* ofVec3d operator*( double f, const ofVec3d& vec )
scalarMul(f, vec) == Vec(Mul(f, vec.x), Mul(f, vec.y), Mul(f, vec.z))

\* ofVec3d operator/( double f, const ofVec3d& vec )
scalarDiv(f, vec) == Vec(Div(f, vec.x), Div(f, vec.y), Div(f, vec.z))

(***************************************************************************)
(* operator*( vec ), operator+= -= *=( vec ), distance                     *)
(***************************************************************************)
\* ofVec3d operator*( const ofVec3d& vec ) const
operatorMul(v, vec) == Vec(Mul(v.x, vec.x), Mul(v.y, vec.y), Mul(v.z, vec.z))

\* mutant of operator+=: the sums are stored in the object pnt refers to
operatorAddAssign_StoresInPnt(m, this, pnt) ==
    IF pnt.ref = "tmp" THEN m
    ELSE [m EXCEPT ![pnt.ref] = Vec(Add(m[this].x, m[pnt.ref].x),
                                    Add(m[this].y, m[pnt.ref].y),
                                    Add(m[this].z, m[pnt.ref].z))]

\* ofVec3d& operator+=( const ofVec3d& pnt ): the memory after the call
operatorAddAssign(m, this, pnt) ==
    LET m1 == [m EXCEPT ![this].x = Add(m[this].x, Rd(m, pnt).x)]
        m2 == [m1 EXCEPT ![this].y = Add(m1[this].y, Rd(m1, pnt).y)]
        m3 == [m2 EXCEPT ![this].z = Add(m2[this].z, Rd(m2, pnt).z)]
    IN  m3

\* ofVec3d& operator-=( const ofVec3d& vec ): the memory after the call
operatorSubAssign(m, this, vec) ==
    LET m1 == [m EXCEPT ![this].x = Sub(m[this].x, Rd(m, vec).x)]
        m2 == [m1 EXCEPT ![this].y = Sub(m1[this].y, Rd(m1, vec).y)]
        m3 == [m2 EXCEPT ![this].z = Sub(m2[this].z, Rd(m2, vec).z)]
    IN  m3

\* ofVec3d& operator*=( const ofVec3d& vec ): the memory after the call
operatorMulAssign(m, this, vec) ==
    LET m1 == [m EXCEPT ![this].x = Mul(m[this].x, Rd(m, vec).x)]
        m2 == [m1 EXCEPT ![this].y = Mul(m1[this].y, Rd(m1, vec).y)]
        m3 == [m2 EXCEPT ![this].z = Mul(m2[this].z, Rd(m2, vec).z)]
    IN  m3

\* double distance( const ofVec3d& pnt ) const
distance(v, pnt) ==
    Sqrt(Add(Add(Mul(Sub(v.x, pnt.x), Sub(v.x, pnt.x)),
                 Mul(Sub(v.y, pnt.y), Sub(v.y, pnt.y))),
             Mul(Sub(v.z, pnt.z), Sub(v.z, pnt.z))))

(***************************************************************************)
(* average                                                                 *)
(***************************************************************************)
\* x += points[i].x; y += points[i].y; z += points[i].z; the point read
\* through the pointer
AddPoint(m, this, p) ==
    LET k1 == [m EXCEPT ![this].x = Add(m[this].x, Rd(m, p).x)]
        k2 == [k1 EXCEPT ![this].y = Add(k1[this].y, Rd(k1, p).y)]
        k3 == [k2 EXCEPT ![this].z = Add(k2[this].z, Rd(k2, p).z)]
    IN  k3

\* for( int i=0; i<num; i++) { ... }: the memory after the iterations from i on
RECURSIVE AverageLoop(_, _, _, _, _)
AverageLoop(m, this, points, i, num) ==
    IF i > num THEN m
    ELSE AverageLoop(AddPoint(m, this, points[i]), this, points, i + 1, num)

\* x /= num; y /= num; z /= num;
DivideByNum(m, this, num) ==
    Store(m, this, Div(m[this].x, I(num)), Div(m[this].y, I(num)), Div(m[this].z, I(num)))

\* ofVec3d& average( const ofVec3d* points, int num ): the memory after the call
average(m, this, points, num) ==
    DivideByNum(AverageLoop(Store(m, this, I(0), I(0), I(0)), this, points, 1, num),
                this, num)

(***************************************************************************)
(* operator<< and operator>>                                               *)
(*                                                                         *)
(* A stream is the text it holds (a sequence of characters), the number of *)
(* characters already read from it, and its eofbit and failbit.  Numbers   *)
(* are written as a stream writes a double after construction: no          *)
(* floatfield flag and precision 6, the %g conversion.  A number read is   *)
(* kept as the exact value of its decimal text (the double stored is the   *)
(* one nearest to it).                                                     *)
(***************************************************************************)
\* the precision of a stream after construction
Precision == 6

NoStream == [text |-> <<>>, pos |-> 0, eof |-> FALSE, fail |-> FALSE]

DigitChars == <<"0", "1", "2", "3", "4", "5", "6", "7", "8", "9">>

IsDigit(c) == \E k \in 1..10 : DigitChars[k] = c

DigitValue(c) == (CHOOSE k \in 1..10 : DigitChars[k] = c) - 1

RECURSIVE DigitsOf(_)
DigitsOf(n) ==
    IF n < 10 THEN <<DigitChars[n + 1]>>
    ELSE Append(DigitsOf(n \div 10), DigitChars[(n % 10) + 1])

RECURSIVE Zeros(_)
Zeros(k) == IF k <= 0 THEN <<>> ELSE <<"0">> \o Zeros(k - 1)

\* the decimal exponent X of n/d > 0: 10^X <= n/d < 10^(X+1)
RECURSIVE Exp10(_, _)
Exp10(n, d) ==
    IF n < d THEN Exp10(10 * n, d) - 1
    ELSE IF n < 10 * d THEN 0
    ELSE Exp10(n, 10 * d) + 1

\* num/den rounded to the nearest integer, ties to even
RoundDiv(num, den) ==
    IF 2 * (num % den) > den \/ (2 * (num % den) = den /\ (num \div den) % 2 = 1)
    THEN (num \div den) + 1
    ELSE num \div den

\* n/d with decimal exponent X rounded to Precision significant digits
Mantissa(n, d, X) ==
    IF Precision - 1 - X >= 0
    THEN RoundDiv(n * 10 ^ (Precision - 1 - X), d)
    ELSE RoundDiv(n, d * 10 ^ (X + 1 - Precision))

RECURSIVE StripZeros(_)
StripZeros(ds) ==
    IF Len(ds) > 1 /\ ds[Len(ds)] = "0"
    THEN StripZeros(SubSeq(ds, 1, Len(ds) - 1))
    ELSE ds

\* digits ds times 10^X in fixed notation
FormatFixed(ds, X) ==
    IF X < 0 THEN <<"0", ".">> \o Zeros(-X - 1) \o ds
    ELSE IF Len(ds) <= X + 1 THEN ds \o Zeros(X + 1 - Len(ds))
    ELSE SubSeq(ds, 1, X + 1) \o <<".">> \o SubSeq(ds, X + 2, Len(ds))

\* digits ds times 10^X in scientific notation, the exponent of two digits
\* at least
FormatScientific(ds, X) ==
    <<ds[1]>> \o (IF Len(ds) > 1 THEN <<".">> \o SubSeq(ds, 2, Len(ds)) ELSE <<>>)
              \o <<"e", IF X < 0 THEN "-" ELSE "+">>
              \o (IF Abs(X) < 10 THEN <<"0">> ELSE <<>>) \o DigitsOf(Abs(X))

\* %g: scientific when the exponent is below -4 or not below the precision,
\* trailing zeros removed
FormatRounded(m, X) ==
    IF X < -4 \/ X >= Precision
    THEN FormatScientific(StripZeros(DigitsOf(m)), X)
    ELSE FormatFixed(StripZeros(DigitsOf(m)), X)

\* rounding may carry into the next decade
FormatMantissa(m, X) ==
    IF m = 10 ^ Precision THEN FormatRounded(10 ^ (Precision - 1), X + 1)
    ELSE FormatRounded(m, X)

FormatPositive(n, d) == FormatMantissa(Mantissa(n, d, Exp10(n, d)), Exp10(n, d))

\* os << double
FormatDouble(a) ==
    CASE IsNaN(a) -> <<"n", "a", "n">>
      [] a = PInf -> <<"i", "n", "f">>
      [] a = NInf -> <<"-", "i", "n", "f">>
      [] IsZero(a) -> <<"0">>
      [] IsFinite(a) /\ a.r = 1 /\ a.n > 0 -> FormatPositive(a.n, a.d)
      [] IsFinite(a) /\ a.r = 1 /\ a.n < 0 -> <<"-">> \o FormatPositive(-a.n, a.d)

\* ostream& operator<<( ostream& os, const ofVec3d& vec )
operatorInsert(os, vec) ==
    [os EXCEPT !.text = @ \o FormatDouble(vec.x) \o <<",", " ">>
                          \o FormatDouble(vec.y) \o <<",", " ">>
                          \o FormatDouble(vec.z)]

\* the character at position p of the text, "" past its end
CharAt(text, p) == IF p <= Len(text) THEN text[p] ELSE ""

RECURSIVE SkipSpaces(_, _)
SkipSpaces(text, p) == IF CharAt(text, p) = " " THEN SkipSpaces(text, p + 1) ELSE p

RECURSIVE EndOfDigits(_, _)
EndOfDigits(text, p) == IF IsDigit(CharAt(text, p)) THEN EndOfDigits(text, p + 1) ELSE p

AfterSign(text, p) == IF CharAt(text, p) \in {"+", "-"} THEN p + 1 ELSE p

\* the value of the digits text[from .. to-1]
RECURSIVE DigitsValue(_, _, _)
DigitsValue(text, from, to) ==
    IF to <= from THEN 0
    ELSE 10 * DigitsValue(text, from, to - 1) + DigitValue(text[to - 1])

\* mant * 10^e
Scaled(mant, e) ==
    IF mant = 0 THEN I(0)
    ELSE IF e >= 0 THEN I(mant * 10 ^ e)
    ELSE Q(mant, 10 ^ (-e))

\* the number text[p .. e-1]: sign at p, integer digits s..i-1, fraction
\* digits i+1..f-1, exponent sign at f+1 and exponent digits x..e-1
TokenValue(text, p, s, i, f, x, e) ==
    Scaled((IF CharAt(text, p) = "-" THEN -1 ELSE 1)
              * (DigitsValue(text, s, i) * 10 ^ (IF f > i THEN f - i - 1 ELSE 0)
                   + DigitsValue(text, i + 1, f)),
           (IF CharAt(text, f + 1) = "-" THEN -1 ELSE 1) * DigitsValue(text, x, e)
              - (IF f > i THEN f - i - 1 ELSE 0))

\* the characters taken end before e; they are a number when there is a
\* digit in the mantissa and, after an e, a digit in the exponent
Token(text, p, s, i, f, x, e) ==
    [end |-> e,
     ok  |-> (i > s \/ f > i + 1) /\ (e = f \/ e > x),
     val |-> IF (i > s \/ f > i + 1) /\ (e = f \/ e > x)
             THEN TokenValue(text, p, s, i, f, x, e) ELSE I(0)]

ScanExp(text, p, s, i, f) ==
    IF (i > s \/ f > i + 1) /\ CharAt(text, f) \in {"e", "E"}
    THEN Token(text, p, s, i, f, AfterSign(text, f + 1),
               EndOfDigits(text, AfterSign(text, f + 1)))
    ELSE Token(text, p, s, i, f, f, f)

ScanFrac(text, p, s, i) ==
    ScanExp(text, p, s, i, IF CharAt(text, i) = "." THEN EndOfDigits(text, i + 1) ELSE i)

\* the longest text at p of the form [sign] digits [. digits] [e [sign] digits]
ScanFloat(text, p) == ScanFrac(text, p, AfterSign(text, p), EndOfDigits(text, AfterSign(text, p)))

Good(is) == ~is.fail /\ ~is.eof

\* the stream and the value after the number t at p was taken
Extracted(is, cur, cxx11, t) ==
    [st  |-> [is EXCEPT !.pos = t.end - 1, !.eof = t.end > Len(is.text),
                        !.fail = ~t.ok],
     val |-> IF t.ok THEN t.val ELSE IF cxx11 THEN I(0) ELSE cur]

\* is >> double into a variable holding cur: nothing is read from a stream
\* that is not good; white space is skipped; when no number is found the
\* failbit is set and the variable is zero (since C++11) or left alone
ExtractDouble(is, cur, cxx11) ==
    IF ~Good(is) THEN [st |-> [is EXCEPT !.fail = TRUE], val |-> cur]
    ELSE IF SkipSpaces(is.text, is.pos + 1) > Len(is.text)
    THEN [st |-> [is EXCEPT !.pos = Len(is.text), !.eof = TRUE, !.fail = TRUE],
          val |-> cur]
    ELSE Extracted(is, cur, cxx11,
                   ScanFloat(is.text, SkipSpaces(is.text, is.pos + 1)))

\* is.ignore( n )
Ignore(is, n) ==
    IF ~Good(is) THEN [is EXCEPT !.fail = TRUE]
    ELSE IF is.pos + n <= Len(is.text) THEN [is EXCEPT !.pos = @ + n]
    ELSE [is EXCEPT !.pos = Len(is.text), !.eof = TRUE]

\* is >> vec.z; return is;
ExtractZ(x, y, rz) == [st |-> rz.st, vec |-> Vec(x, y, rz.val)]

\* is >> vec.y; is.ignore(2);
ExtractY(x, ry, vec, cxx11) ==
    ExtractZ(x, ry.val, ExtractDouble(Ignore(ry.st, 2), vec.z, cxx11))

\* is >> vec.x; is.ignore(2);
ExtractX(rx, vec, cxx11) ==
    ExtractY(rx.val, ExtractDouble(Ignore(rx.st, 2), vec.y, cxx11), vec, cxx11)

\* istream& operator>>( istream& is, ofVec3d& vec )
operatorExtract(is, vec, cxx11) == ExtractX(ExtractDouble(is, vec.x, cxx11), vec, cxx11)

(***************************************************************************)
(* The program: objects a and b are constructed, then one member function  *)
(* is called on one of them.  call records the call, old the memory before *)
(* it and ret the value it returned.                                       *)
(***************************************************************************)
\* ofVec3d( double _x, double _y, double _z ) over components -k..k
Cube(k) == { IVec(x, y, z) : x \in (0 - k)..k, y \in (0 - k)..k, z \in (0 - k)..k }

\* temporaries passed as vector arguments
TmpVecs == { ofVec3d, IVec(2, 4, 10), IVec(0, 3, -1) }

VecArgs == { Ref(o) : o \in Obj } \cup { Tmp(v) : v \in TmpVecs }

\* scalar arguments
Scalars == { I(0), I(1), I(-1), I(2), I(-3), Q(1, 2) }

RetNone == [kind |-> "none", vec |-> ofVec3d, num |-> I(0), bool |-> FALSE]
RetVec(v) == [kind |-> "vec", vec |-> v, num |-> I(0), bool |-> FALSE]
RetThis(m, this) == [kind |-> "this", vec |-> m[this], num |-> I(0), bool |-> FALSE]
RetNum(f) == [kind |-> "num", vec |-> ofVec3d, num |-> f, bool |-> FALSE]
RetBool(b) == [kind |-> "bool", vec |-> ofVec3d, num |-> I(0), bool |-> b]

NoCall == [op |-> "none", this |-> "a", vecs |-> <<>>, nums |-> <<>>]

\* a and b constructed from components
InitAB ==
    /\ mem \in { [a |-> va, b |-> vb] : va \in Cube(MaxCoord), vb \in Cube(MaxArg) }
    /\ pc = "ready"
    /\ call = NoCall
    /\ old = mem
    /\ ret = RetNone
    /\ first = mem
    /\ hist = <<>>
    /\ stream = NoStream

\* the call op(vecs, nums) on object this leaves memory m and returns r
Invoke(op, this, vecs, nums, m, r) ==
    /\ pc' = "done"
    /\ call' = [op |-> op, this |-> this, vecs |-> vecs, nums |-> nums]
    /\ old' = mem
    /\ mem' = m
    /\ ret' = r
    /\ first' = first
    /\ hist' = Append(hist, [op |-> op, this |-> this, vecs |-> vecs, nums |-> nums])
    /\ stream' = stream

Call_operatorDiv ==
    /\ pc = "ready"
    /\ \E this \in Obj, vec \in VecArgs :
            Invoke("operator/", this, <<vec>>, <<>>, mem,
                   RetVec(operatorDiv(mem[this], Rd(mem, vec))))

Call_operatorDivAssign ==
    /\ pc = "ready"
    /\ \E this \in Obj, vec \in VecArgs :
            LET m == operatorDivAssign(mem, this, vec)
            IN  Invoke("operator/=", this, <<vec>>, <<>>, m, RetThis(m, this))

Call_operatorDivScalar ==
    /\ pc = "ready"
    /\ \E this \in Obj, f \in Scalars :
            Invoke("operator/f", this, <<>>, <<f>>, mem,
                   RetVec(operatorDivScalar(mem[this], f)))

Call_operatorDivAssignScalar ==
    /\ pc = "ready"
    /\ \E this \in Obj, f \in Scalars :
            LET m == operatorDivAssignScalar(mem, this, f)
            IN  Invoke("operator/=f", this, <<>>, <<f>>, m, RetThis(m, this))

NextArith ==
    \/ Call_operatorDiv
    \/ Call_operatorDivAssign
    \/ Call_operatorDivScalar
    \/ Call_operatorDivAssignScalar

SpecArith == InitAB /\ [][NextArith]_vars

Call_getScaled ==
    /\ pc = "ready"
    /\ \E this \in Obj, len \in Scalars :
            Invoke("getScaled", this, <<>>, <<len>>, mem,
                   RetVec(getScaled(mem[this], len)))

Call_scale ==
    /\ pc = "ready"
    /\ \E this \in Obj, len \in Scalars :
            LET m == scale(mem, this, len)
            IN  Invoke("scale", this, <<>>, <<len>>, m, RetThis(m, this))

Call_getNormalized ==
    /\ pc = "ready"
    /\ \E this \in Obj :
            Invoke("getNormalized", this, <<>>, <<>>, mem,
                   RetVec(getNormalized(mem[this])))

Call_normalize ==
    /\ pc = "ready"
    /\ \E this \in Obj :
            LET m == normalize(mem, this)
            IN  Invoke("normalize", this, <<>>, <<>>, m, RetThis(m, this))

Call_getLimited ==
    /\ pc = "ready"
    /\ \E this \in Obj, max \in Scalars :
            Invoke("getLimited", this, <<>>, <<max>>, mem,
                   RetVec(getLimited(mem[this], max)))

Call_limit ==
    /\ pc = "ready"
    /\ \E this \in Obj, max \in Scalars :
            LET m == limit(mem, this, max)
            IN  Invoke("limit", this, <<>>, <<max>>, m, RetThis(m, this))

Call_length ==
    /\ pc = "ready"
    /\ \E this \in Obj :
            Invoke("length", this, <<>>, <<>>, mem, RetNum(length(mem[this])))

NextLength ==
    \/ Call_getScaled
    \/ Call_scale
    \/ Call_getNormalized
    \/ Call_normalize
    \/ Call_getLimited
    \/ Call_limit
    \/ Call_length

SpecLength == InitAB /\ [][NextLength]_vars

\* angles in degrees
Angles == { I(0), I(90), I(180), I(-90) }

\* rotation axes: temporaries, and the objects whose length is rational
AxisVecs == { IVec(1, 0, 0), IVec(0, 1, 0), IVec(0, 0, 1), IVec(0, 0, 5),
              IVec(1, 2, 2), ofVec3d }

AxisArgs == { Tmp(v) : v \in AxisVecs }
            \cup { Ref(o) : o \in { q \in Obj : length(mem[q]).r = 1 } }

PivotArgs == { Ref(o) : o \in Obj } \cup { Tmp(IVec(1, -1, 2)) }

PivotAxisArgs == { Tmp(IVec(0, 0, 1)), Tmp(IVec(1, 2, 2)), Tmp(IVec(0, -3, 0)) }

\* coordinate systems for map: origin and <<vx, vy, vz>>
Origins == { Tmp(ofVec3d), Tmp(IVec(1, 2, 3)) } \cup { Ref(o) : o \in Obj }

Bases == { <<Tmp(IVec(1, 0, 0)), Tmp(IVec(0, 1, 0)), Tmp(IVec(0, 0, 1))>>,
           <<Tmp(IVec(0, 2, 0)), Tmp(IVec(1, 1, 0)), Tmp(IVec(0, 0, -1))>>,
           <<Ref("a"), Ref("b"), Tmp(IVec(1, 0, 1))>>,
           <<Ref("b"), Tmp(IVec(0, 1, 0)), Ref("a")>> }

\* object b of the transform calls
BVecs == { IVec(0, 0, 5), IVec(1, 2, 2) }

InitTransform ==
    /\ mem \in { [a |-> va, b |-> vb] : va \in Cube(MaxCoord), vb \in BVecs }
    /\ pc = "ready"
    /\ call = NoCall
    /\ old = mem
    /\ ret = RetNone
    /\ first = mem
    /\ hist = <<>>
    /\ stream = NoStream

Call_getRotated ==
    /\ pc = "ready"
    /\ \E this \in Obj, angle \in Angles, axis \in AxisArgs :
            Invoke("getRotated", this, <<axis>>, <<angle>>, mem,
                   RetVec(getRotated(mem[this], angle, Rd(mem, axis))))

Call_rotate ==
    /\ pc = "ready"
    /\ \E this \in Obj, angle \in Angles, axis \in AxisArgs :
            LET m == rotate(mem, this, angle, axis)
            IN  Invoke("rotate", this, <<axis>>, <<angle>>, m, RetThis(m, this))

Call_getRotatedEuler ==
    /\ pc = "ready"
    /\ \E this \in Obj, ax \in Angles, ay \in Angles, az \in Angles :
            Invoke("getRotatedEuler", this, <<>>, <<ax, ay, az>>, mem,
                   RetVec(getRotatedEuler(mem[this], ax, ay, az)))

Call_rotateEuler ==
    /\ pc = "ready"
    /\ \E this \in Obj, ax \in Angles, ay \in Angles, az \in Angles :
            LET m == rotateEuler(mem, this, ax, ay, az)
            IN  Invoke("rotateEuler", this, <<>>, <<ax, ay, az>>, m, RetThis(m, this))

Call_getRotatedPivot ==
    /\ pc = "ready"
    /\ \E this \in Obj, angle \in Angles, pivot \in PivotArgs, axis \in PivotAxisArgs :
            Invoke("getRotatedPivot", this, <<pivot, axis>>, <<angle>>, mem,
                   RetVec(getRotatedPivot(mem[this], angle, Rd(mem, pivot), Rd(mem, axis))))

Call_rotatePivot ==
    /\ pc = "ready"
    /\ \E this \in Obj, angle \in Angles, pivot \in PivotArgs, axis \in PivotAxisArgs :
            LET m == rotatePivot(mem, this, angle, pivot, axis)
            IN  Invoke("rotatePivot", this, <<pivot, axis>>, <<angle>>, m, RetThis(m, this))

Call_getMapped ==
    /\ pc = "ready"
    /\ \E this \in Obj, origin \in Origins, basis \in Bases :
            Invoke("getMapped", this, <<origin>> \o basis, <<>>, mem,
                   RetVec(getMapped(mem[this], Rd(mem, origin), Rd(mem, basis[1]),
                                    Rd(mem, basis[2]), Rd(mem, basis[3]))))

Call_map ==
    /\ pc = "ready"
    /\ \E this \in Obj, origin \in Origins, basis \in Bases :
            LET m == map(mem, this, origin, basis[1], basis[2], basis[3])
            IN  Invoke("map", this, <<origin>> \o basis, <<>>, m, RetThis(m, this))

NextTransform ==
    \/ Call_getScaled
    \/ Call_scale
    \/ Call_getRotated
    \/ Call_rotate
    \/ Call_getRotatedEuler
    \/ Call_rotateEuler
    \/ Call_getRotatedPivot
    \/ Call_rotatePivot
    \/ Call_getMapped
    \/ Call_map

SpecTransform == InitTransform /\ [][NextTransform]_vars

(***************************************************************************)
(* angle, align                                                            *)
(***************************************************************************)
\* acos(c) is NaN, or a rational multiple of pi listed in AcosTable
AcosDefined(c) ==
    IsNaN(c) \/ Less(I(1), c) \/ Less(c, I(-1)) \/ InAcosTable(c)

\* double angle( const ofVec3d& vec ) const
angle(v, vec) == Mul(Acos(dot(getNormalized(v), getNormalized(vec))), RAD_TO_DEG)

\* double angleRad( const ofVec3d& vec ) const
angleRad(v, vec) == Acos(dot(getNormalized(v), getNormalized(vec)))

\* bool isAligned( const ofVec3d& vec, double tolerance ) const
isAligned(v, vec, tolerance) == Less(angle(v, vec), tolerance)

\* bool align( const ofVec3d& vec, double tolerance ) const
align(v, vec, tolerance) == isAligned(v, vec, tolerance)

\* bool isAlignedRad( const ofVec3d& vec, double tolerance ) const
isAlignedRad(v, vec, tolerance) == Less(angleRad(v, vec), tolerance)

\* bool alignRad( const ofVec3d& vec, double tolerance ) const
alignRad(v, vec, tolerance) == isAlignedRad(v, vec, tolerance)

\* the vector arguments of the angle calls
AngleArgs == { Ref(o) : o \in Obj } \cup { Tmp(ofVec3d), Tmp(IVec(4, 2, 7)) }

\* the arguments vec for which the angle of v is one the model computes exactly
ExactAngleArgs(v) ==
    { p \in AngleArgs : AcosDefined(dot(getNormalized(v), getNormalized(Rd(mem, p)))) }

\* tolerances, in degrees for isAligned/align and in units of pi radians for
\* isAlignedRad/alignRad
Tolerances == { I(0), Q(1, 10000), I(180) }

\* a and b constructed from components; a may be the documented (40, 20, 70)
InitAngle ==
    /\ mem \in { [a |-> va, b |-> vb] : va \in Cube(MaxArg) \cup { IVec(40, 20, 70) },
                                        vb \in Cube(MaxArg) }
    /\ pc = "ready"
    /\ call = NoCall
    /\ old = mem
    /\ ret = RetNone
    /\ first = mem
    /\ hist = <<>>
    /\ stream = NoStream

Call_angle ==
    /\ pc = "ready"
    /\ \E this \in Obj :
         \E vec \in ExactAngleArgs(mem[this]) :
            Invoke("angle", this, <<vec>>, <<>>, mem,
                   RetNum(angle(mem[this], Rd(mem, vec))))

Call_angleRad ==
    /\ pc = "ready"
    /\ \E this \in Obj :
         \E vec \in ExactAngleArgs(mem[this]) :
            Invoke("angleRad", this, <<vec>>, <<>>, mem,
                   RetNum(angleRad(mem[this], Rd(mem, vec))))

Call_isAligned ==
    /\ pc = "ready"
    /\ \E this \in Obj, tolerance \in Tolerances :
         \E vec \in ExactAngleArgs(mem[this]) :
            Invoke("isAligned", this, <<vec>>, <<tolerance>>, mem,
                   RetBool(isAligned(mem[this], Rd(mem, vec), tolerance)))

Call_align ==
    /\ pc = "ready"
    /\ \E this \in Obj, tolerance \in Tolerances :
         \E vec \in ExactAngleArgs(mem[this]) :
            Invoke("align", this, <<vec>>, <<tolerance>>, mem,
                   RetBool(align(mem[this], Rd(mem, vec), tolerance)))

Call_isAlignedRad ==
    /\ pc = "ready"
    /\ \E this \in Obj, tolerance \in Tolerances :
         \E vec \in ExactAngleArgs(mem[this]) :
            Invoke("isAlignedRad", this, <<vec>>, <<tolerance>>, mem,
                   RetBool(isAlignedRad(mem[this], Rd(mem, vec), tolerance)))

Call_alignRad ==
    /\ pc = "ready"
    /\ \E this \in Obj, tolerance \in Tolerances :
         \E vec \in ExactAngleArgs(mem[this]) :
            Invoke("alignRad", this, <<vec>>, <<tolerance>>, mem,
                   RetBool(alignRad(mem[this], Rd(mem, vec), tolerance)))

NextAngle ==
    \/ Call_angle
    \/ Call_angleRad
    \/ Call_isAligned
    \/ Call_align
    \/ Call_isAlignedRad
    \/ Call_alignRad

SpecAngle == InitAngle /\ [][NextAngle]_vars

(***************************************************************************)
(* Calls of match, dot, getCrossed, cross, getPerpendicular, perpendicular *)
(***************************************************************************)
\* the vector arguments of the products
ProductArgs == { Ref(o) : o \in Obj } \cup { Tmp(IVec(0, 3, -1)) }

\* the vector arguments of match: the objects, and the (40.01, 19.999, 70.05)
\* documented with it
MatchArgs ==
    { Ref(o) : o \in Obj }
    \cup { Tmp(Vec(Q(4001, 100), Q(19999, 1000), Q(7005, 100))) }

MatchTolerances == { Q(1, 10), Q(1, 100), I(1), I(0), I(-1) }

Call_match ==
    /\ pc = "ready"
    /\ \E this \in Obj, vec \in MatchArgs, tolerance \in MatchTolerances :
            Invoke("match", this, <<vec>>, <<tolerance>>, mem,
                   RetBool(match(mem[this], Rd(mem, vec), tolerance)))

Call_dot ==
    /\ pc = "ready"
    /\ \E this \in Obj, vec \in ProductArgs :
            Invoke("dot", this, <<vec>>, <<>>, mem,
                   RetNum(dot(mem[this], Rd(mem, vec))))

Call_getCrossed ==
    /\ pc = "ready"
    /\ \E this \in Obj, vec \in ProductArgs :
            Invoke("getCrossed", this, <<vec>>, <<>>, mem,
                   RetVec(getCrossed(mem[this], Rd(mem, vec))))

Call_cross ==
    /\ pc = "ready"
    /\ \E this \in Obj, vec \in ProductArgs :
            LET m == cross(mem, this, vec)
            IN  Invoke("cross", this, <<vec>>, <<>>, m, RetThis(m, this))

Call_getPerpendicular ==
    /\ pc = "ready"
    /\ \E this \in Obj, vec \in ProductArgs :
            Invoke("getPerpendicular", this, <<vec>>, <<>>, mem,
                   RetVec(getPerpendicular(mem[this], Rd(mem, vec))))

Call_perpendicular ==
    /\ pc = "ready"
    /\ \E this \in Obj, vec \in ProductArgs :
            LET m == perpendicular(mem, this, vec)
            IN  Invoke("perpendicular", this, <<vec>>, <<>>, m, RetThis(m, this))

NextProducts ==
    \/ Call_match
    \/ Call_dot
    \/ Call_getCrossed
    \/ Call_cross
    \/ Call_getPerpendicular
    \/ Call_perpendicular

SpecProducts == InitAngle /\ [][NextProducts]_vars

(***************************************************************************)
(* Calls of operator*, interpolate, middle and the scalar-left operators   *)
(***************************************************************************)
\* the points interpolated towards
PointArgs == { Ref(o) : o \in Obj } \cup { Tmp(IVec(0, 3, -1)) }

\* the amounts p, inside and outside [0, 1]
Amounts == { I(0), I(1), Q(1, 2), I(2), I(-1) }

Call_operatorMulScalar ==
    /\ pc = "ready"
    /\ \E this \in Obj, f \in Scalars :
            Invoke("operator*f", this, <<>>, <<f>>, mem,
                   RetVec(operatorMulScalar(mem[this], f)))

Call_getInterpolated ==
    /\ pc = "ready"
    /\ \E this \in Obj, pnt \in PointArgs, p \in Amounts :
            Invoke("getInterpolated", this, <<pnt>>, <<p>>, mem,
                   RetVec(getInterpolated(mem[this], Rd(mem, pnt), p)))

Call_interpolate ==
    /\ pc = "ready"
    /\ \E this \in Obj, pnt \in PointArgs, p \in Amounts :
            LET m == interpolate(mem, this, pnt, p)
            IN  Invoke("interpolate", this, <<pnt>>, <<p>>, m, RetThis(m, this))

Call_getMiddle ==
    /\ pc = "ready"
    /\ \E this \in Obj, pnt \in PointArgs :
            Invoke("getMiddle", this, <<pnt>>, <<>>, mem,
                   RetVec(getMiddle(mem[this], Rd(mem, pnt))))

Call_middle ==
    /\ pc = "ready"
    /\ \E this \in Obj, pnt \in PointArgs :
            LET m == middle(mem, this, pnt)
            IN  Invoke("middle", this, <<pnt>>, <<>>, m, RetThis(m, this))

\* the free operators take the scalar f and the object vec
Call_scalarAdd ==
    /\ pc = "ready"
    /\ \E vec \in Obj, f \in Scalars :
            Invoke("f+v", vec, <<Ref(vec)>>, <<f>>, mem, RetVec(scalarAdd(f, mem[vec])))

Call_scalarSub ==
    /\ pc = "ready"
    /\ \E vec \in Obj, f \in Scalars :
            Invoke("f-v", vec, <<Ref(vec)>>, <<f>>, mem, RetVec(scalarSub(f, mem[vec])))

Call_scalarMul ==
    /\ pc = "ready"
    /\ \E vec \in Obj, f \in Scalars :
            Invoke("f*v", vec, <<Ref(vec)>>, <<f>>, mem, RetVec(scalarMul(f, mem[vec])))

Call_scalarDiv ==
    /\ pc = "ready"
    /\ \E vec \in Obj, f \in Scalars :
            Invoke("f/v", vec, <<Ref(vec)>>, <<f>>, mem, RetVec(scalarDiv(f, mem[vec])))

NextLinear ==
    \/ Call_operatorMulScalar
    \/ Call_getInterpolated
    \/ Call_interpolate
    \/ Call_getMiddle
    \/ Call_middle
    \/ Call_scalarAdd
    \/ Call_scalarSub
    \/ Call_scalarMul
    \/ Call_scalarDiv

SpecLinear == InitAngle /\ [][NextLinear]_vars

(***************************************************************************)
(* Sequences of getMiddle, middle and interpolate( pnt, 0.5 ) calls on one *)
(* receiver towards one point                                              *)
(***************************************************************************)
MiddleStarts == { IVec(0, 5, 0), IVec(1, -1, 2), ofVec3d }

MiddleTargets == { IVec(10, 10, 20), IVec(-3, 0, 8) }

InitMiddle ==
    /\ mem \in { [a |-> va, b |-> vb] : va \in MiddleStarts, vb \in MiddleTargets }
    /\ pc = "ready"
    /\ call = NoCall
    /\ old = mem
    /\ ret = RetNone
    /\ first = mem
    /\ hist = <<>>
    /\ stream = NoStream

\* the call made is on the receiver and towards the point of the first call,
\* and interpolate is called with p = 0.5
SameReceiverAndPoint ==
    /\ hist # <<>> => call'.this = hist[1].this /\ call'.vecs = hist[1].vecs
    /\ call'.op = "interpolate" => call'.nums[1] = Q(1, 2)

\* the call has returned and the caller goes on to its next call
Return ==
    /\ pc = "done"
    /\ Len(hist) < MaxCalls
    /\ pc' = "ready"
    /\ UNCHANGED <<mem, call, old, ret, first, hist, stream>>

NextMiddle ==
    \/ Call_getMiddle /\ SameReceiverAndPoint
    \/ Call_middle /\ SameReceiverAndPoint
    \/ Call_interpolate /\ SameReceiverAndPoint
    \/ Return

SpecMiddle == InitMiddle /\ [][NextMiddle]_vars

(***************************************************************************)
(* Calls of operator<< and operator>> on one stream                        *)
(***************************************************************************)
StreamVecs ==
    { ofVec3d, IVec(1, -2, 40), Vec(Q(1, 2), Q(-1, 4), Q(1, 128)),
      IVec(1000000, 100000, -1), IVec(1234567, 0, 0),
      Vec(I(0), Q(1, 1024), I(0)), Vec(I(2), PInf, I(-2)) }

\* texts whose separators are not two characters wide:
\* "1,2,3", "10,20,30", "1.5,2.5,3.5", "1;2;3", "1 , 2 , 3"
MalformedTexts ==
    { <<"1", ",", "2", ",", "3">>,
      <<"1", "0", ",", "2", "0", ",", "3", "0">>,
      <<"1", ".", "5", ",", "2", ".", "5", ",", "3", ".", "5">>,
      <<"1", ";", "2", ";", "3">>,
      <<"1", " ", ",", " ", "2", " ", ",", " ", "3">> }

\* texts of fewer than three scalars: "", "1", "1, 2", "1, 2, ", "1, x, 3"
ShortTexts ==
    { <<>>, <<"1">>, <<"1", ",", " ", "2">>, <<"1", ",", " ", "2", ",", " ">>,
      <<"1", ",", " ", "x", ",", " ", "3">> }

\* a well formed text: "1, 2, 3"
GoodTexts == { <<"1", ",", " ", "2", ",", " ", "3">> }

StreamTexts == MalformedTexts \cup ShortTexts \cup GoodTexts

\* the stream is newly constructed, empty or holding a text
InitStream ==
    /\ mem \in { [a |-> va, b |-> vb] : va \in StreamVecs, vb \in { IVec(7, 8, 9) } }
    /\ pc = "ready"
    /\ call = NoCall
    /\ old = mem
    /\ ret = RetNone
    /\ first = mem
    /\ hist = <<>>
    /\ stream \in { [NoStream EXCEPT !.text = t] : t \in StreamTexts }

\* a call on the stream: it leaves memory m and the stream s
InvokeStream(op, this, m, s) ==
    /\ pc' = "done"
    /\ call' = [op |-> op, this |-> this, vecs |-> <<Ref(this)>>, nums |-> <<>>]
    /\ old' = mem
    /\ mem' = m
    /\ ret' = RetNone
    /\ first' = first
    /\ hist' = Append(hist, [op |-> op, this |-> this, vecs |-> <<Ref(this)>>,
                             nums |-> <<>>])
    /\ stream' = s

\* a vector is written to the newly constructed empty stream
Call_operatorInsert ==
    /\ pc = "ready"
    /\ stream = NoStream
    /\ \E vec \in Obj :
            InvokeStream("operator<<", vec, mem, operatorInsert(stream, mem[vec]))

Call_operatorExtract ==
    /\ pc = "ready"
    /\ \E vec \in Obj, cxx11 \in BOOLEAN :
            InvokeStream("operator>>", vec,
                         [mem EXCEPT ![vec] = operatorExtract(stream, mem[vec], cxx11).vec],
                         operatorExtract(stream, mem[vec], cxx11).st)

NextStream ==
    \/ Call_operatorInsert
    \/ Call_operatorExtract
    \/ Return

SpecStream == InitStream /\ [][NextStream]_vars

(***************************************************************************)
(* Calls of average                                                        *)
(***************************************************************************)
AverageVecs == { IVec(2, -1, 1), IVec(0, 6, -4), ofVec3d, IVec(40, 20, 70) }

InitAverage ==
    /\ mem \in { [a |-> va, b |-> vb] : va \in AverageVecs, vb \in AverageVecs }
    /\ pc = "ready"
    /\ call = NoCall
    /\ old = mem
    /\ ret = RetNone
    /\ first = mem
    /\ hist = <<>>
    /\ stream = NoStream

\* the elements of the arrays: the objects and two temporaries
ArrayElements == { Ref(o) : o \in Obj } \cup { Tmp(IVec(0, 3, -1)), Tmp(IVec(4, 0, 2)) }

\* the arrays of 1 .. MaxPoints elements
PointArrays == UNION { [1..n -> ArrayElements] : n \in 1..MaxPoints }

\* num is at most the number of elements of the array
Call_average ==
    /\ pc = "ready"
    /\ \E this \in Obj, points \in PointArrays :
         \E num \in 0..Len(points) :
            LET m == average(mem, this, points, num)
            IN  Invoke("average", this, points, <<I(num)>>, m, RetThis(m, this))

NextAverage ==
    \/ Call_average

SpecAverage == InitAverage /\ [][NextAverage]_vars

(***************************************************************************)
(* One call of any member function: the calls above and the calls of       *)
(* operator+ - *, unary -, distance and operator+= -= *=                   *)
(***************************************************************************)
FrameVecsA == { IVec(2, -1, 1), IVec(1, 0, 0), IVec(0, 1, -1), ofVec3d }

FrameVecsB == { IVec(0, 0, 1), IVec(1, 2, 2), ofVec3d }

InitFrame ==
    /\ mem \in { [a |-> va, b |-> vb] : va \in FrameVecsA, vb \in FrameVecsB }
    /\ pc = "ready"
    /\ call = NoCall
    /\ old = mem
    /\ ret = RetNone
    /\ first = mem
    /\ hist = <<>>
    /\ stream = NoStream

Call_operatorAdd ==
    /\ pc = "ready"
    /\ \E this \in Obj, pnt \in VecArgs :
            Invoke("operator+", this, <<pnt>>, <<>>, mem,
                   RetVec(operatorAdd(mem[this], Rd(mem, pnt))))

Call_operatorSub ==
    /\ pc = "ready"
    /\ \E this \in Obj, vec \in VecArgs :
            Invoke("operator-", this, <<vec>>, <<>>, mem,
                   RetVec(operatorSub(mem[this], Rd(mem, vec))))

Call_operatorMul ==
    /\ pc = "ready"
    /\ \E this \in Obj, vec \in VecArgs :
            Invoke("operator*", this, <<vec>>, <<>>, mem,
                   RetVec(operatorMul(mem[this], Rd(mem, vec))))

Call_operatorNeg ==
    /\ pc = "ready"
    /\ \E this \in Obj :
            Invoke("operator-()", this, <<>>, <<>>, mem, RetVec(operatorNeg(mem[this])))

Call_operatorAddScalar ==
    /\ pc = "ready"
    /\ \E this \in Obj, f \in Scalars :
            Invoke("operator+f", this, <<>>, <<f>>, mem,
                   RetVec(operatorAddScalar(mem[this], f)))

Call_operatorSubScalar ==
    /\ pc = "ready"
    /\ \E this \in Obj, f \in Scalars :
            Invoke("operator-f", this, <<>>, <<f>>, mem,
                   RetVec(operatorSubScalar(mem[this], f)))

Call_distance ==
    /\ pc = "ready"
    /\ \E this \in Obj, pnt \in VecArgs :
            Invoke("distance", this, <<pnt>>, <<>>, mem,
                   RetNum(distance(mem[this], Rd(mem, pnt))))

Call_operatorAddAssign ==
    /\ pc = "ready"
    /\ \E this \in Obj, pnt \in VecArgs :
            LET m == operatorAddAssign(mem, this, pnt)
            IN  Invoke("operator+=", this, <<pnt>>, <<>>, m, RetThis(m, this))

Call_operatorSubAssign ==
    /\ pc = "ready"
    /\ \E this \in Obj, vec \in VecArgs :
            LET m == operatorSubAssign(mem, this, vec)
            IN  Invoke("operator-=", this, <<vec>>, <<>>, m, RetThis(m, this))

Call_operatorMulAssign ==
    /\ pc = "ready"
    /\ \E this \in Obj, vec \in VecArgs :
            LET m == operatorMulAssign(mem, this, vec)
            IN  Invoke("operator*=", this, <<vec>>, <<>>, m, RetThis(m, this))

NextFrame ==
    \/ Call_operatorAdd
    \/ Call_operatorSub
    \/ Call_operatorMul
    \/ Call_operatorNeg
    \/ Call_operatorAddScalar
    \/ Call_operatorSubScalar
    \/ Call_distance
    \/ Call_operatorAddAssign
    \/ Call_operatorSubAssign
    \/ Call_operatorMulAssign
    \/ NextArith
    \/ NextLength
    \/ NextTransform
    \/ NextAngle
    \/ NextProducts
    \/ NextLinear
    \/ NextAverage

SpecFrame == InitFrame /\ [][NextFrame]_vars

(***************************************************************************)
(* Properties                                                              *)
(***************************************************************************)
Called(ops) == pc = "done" /\ call.op \in ops

\* the receiver before the call and the i-th vector argument before the call
This0 == old[call.this]
Arg0(i) == Rd(old, call.vecs[i])

Comp(v, c) == IF c = "x" THEN v.x ELSE IF c = "y" THEN v.y ELSE v.z

\* C1: v / w and v /= w divide each component of v by the matching component
\* of w when that component is non-zero and leave it unchanged when it is
\* zero; v / ofVec3d(0,0,0) == v.
C1_DivVecSkipsZero ==
    Called({"operator/", "operator/="}) =>
        /\ \A c \in {"x", "y", "z"} :
              Comp(ret.vec, c) = IF IsZero(Comp(Arg0(1), c))
                                 THEN Comp(This0, c)
                                 ELSE Div(Comp(This0, c), Comp(Arg0(1), c))
        /\ Arg0(1) = ofVec3d => operatorEq(ret.vec, This0)
        /\ call.op = "operator/=" => mem[call.this] = ret.vec

C1_Witness ==
    /\ Called({"operator/="})
    /\ Arg0(1) = IVec(0, 3, -1) /\ This0 = IVec(2, -1, 1)
    /\ mem[call.this] = Vec(I(2), Q(-1, 3), I(-1))

\* C2: v / 0 returns a vector equal to v and v /= 0 leaves all three
\* components of v unchanged.
C2_DivScalarZeroNoOp ==
    Called({"operator/f", "operator/=f"}) /\ IsZero(call.nums[1]) =>
        /\ operatorEq(ret.vec, This0)
        /\ mem = old

C2_Witness ==
    /\ Called({"operator/f"}) /\ IsZero(call.nums[1])
    /\ This0 = IVec(2, -1, 1) /\ ret.vec = This0

VNeg(v) == Vec(Neg(v.x), Neg(v.y), Neg(v.z))

\* u = t*v for some t >= 0
InDirectionOf(u, v) ==
    /\ getCrossed(u, v) = ofVec3d
    /\ ~Less(dot(u, v), I(0))

\* C6 as claimed: for non-zero v and every k, getScaled(k) and scale(k) give a
\* vector of magnitude k in the direction of v; the zero vector gives the
\* zero vector.
C6_Claimed_MagnitudeIsK ==
    Called({"getScaled", "scale"}) =>
        IF This0 = ofVec3d THEN ret.vec = ofVec3d
        ELSE /\ length(ret.vec) = call.nums[1]
             /\ InDirectionOf(ret.vec, This0)

\* C6: for non-zero v, getScaled(k) and scale(k) give a vector of magnitude
\* |k|, in the direction of v when k >= 0 and in the opposite direction when
\* k < 0; the zero vector gives the zero vector.
C6_ScaledMagnitudeAbsK ==
    Called({"getScaled", "scale"}) =>
        /\ IF This0 = ofVec3d THEN ret.vec = ofVec3d
           ELSE /\ length(ret.vec) = Fabs(call.nums[1])
                /\ InDirectionOf(ret.vec, IF Less(call.nums[1], I(0))
                                          THEN VNeg(This0) ELSE This0)
        /\ call.op = "scale" => mem[call.this] = ret.vec

C6_Witness ==
    /\ Called({"scale"}) /\ call.nums[1] = I(-3)
    /\ This0 = IVec(1, -2, 2) /\ mem[call.this] = IVec(-1, 2, -2)

\* C7 as claimed: getLimited(max)/limit(max) return v unchanged when
\* lengthSquared(v) <= max*max and otherwise a vector in the direction of v
\* whose length is exactly max.
C7_Claimed_LengthIsMax ==
    Called({"getLimited", "limit"}) =>
        IF ~Less(Mul(call.nums[1], call.nums[1]), lengthSquared(This0))
        THEN ret.vec = This0
        ELSE /\ length(ret.vec) = call.nums[1]
             /\ InDirectionOf(ret.vec, This0)

\* C7: getLimited(max)/limit(max) return v unchanged when
\* lengthSquared(v) <= max*max and otherwise a vector of length |max|, in the
\* direction of v when max >= 0 and in the opposite direction when max < 0.
C7_LimitedLengthAbsMax ==
    Called({"getLimited", "limit"}) =>
        /\ IF ~Less(Mul(call.nums[1], call.nums[1]), lengthSquared(This0))
           THEN ret.vec = This0
           ELSE /\ length(ret.vec) = Fabs(call.nums[1])
                /\ InDirectionOf(ret.vec, IF Less(call.nums[1], I(0))
                                          THEN VNeg(This0) ELSE This0)
        /\ call.op = "limit" => mem[call.this] = ret.vec

C7_Witness ==
    /\ Called({"limit"}) /\ call.nums[1] = I(1)
    /\ This0 = IVec(2, 2, -1) /\ mem[call.this] = Vec(Q(2, 3), Q(2, 3), Q(-1, 3))

C3_Claimed_MutatingEqualsNonMutating ==
    /\ Called({"scale"}) =>
          mem[call.this] = getScaled(This0, call.nums[1])
    /\ Called({"rotate"}) =>
          mem[call.this] = getRotated(This0, call.nums[1], Arg0(1))
    /\ Called({"rotateEuler"}) =>
          mem[call.this] = getRotatedEuler(This0, call.nums[1], call.nums[2], call.nums[3])
    /\ Called({"rotatePivot"}) =>
          mem[call.this] = getRotatedPivot(This0, call.nums[1], Arg0(1), Arg0(2))
    /\ Called({"map"}) =>
          mem[call.this] = getMapped(This0, Arg0(1), Arg0(2), Arg0(3), Arg0(4))

\* C4 as claimed: angle(other) and angleRad(other) are NaN whenever the
\* receiver or other is the zero vector.
C4_Claimed_ZeroVectorAngleIsNaN ==
    Called({"angle", "angleRad"}) /\ (This0 = ofVec3d \/ Arg0(1) = ofVec3d) =>
        IsNaN(ret.num)

\* C4: whenever the receiver or other is the zero vector, angle(other) is 90
\* degrees and angleRad(other) is pi/2, the arc cosine of 0.
C4_ZeroVectorAngleIsRight ==
    Called({"angle", "angleRad"}) /\ (This0 = ofVec3d \/ Arg0(1) = ofVec3d) =>
        ret.num = IF call.op = "angle" THEN I(90) ELSE Q(1, 2)

C4_Witness ==
    /\ Called({"angle"})
    /\ This0 = ofVec3d /\ Arg0(1) = IVec(4, 2, 7) /\ ret.num = I(90)

\* C5 as claimed: for two non-zero vectors pointing in exactly the same
\* direction, such as (40,20,70) and (4,2,7), align(vec, 0.0) and
\* alignRad(vec, 0.0) return true.
C5_Claimed_AlignedAtZeroTolerance ==
    /\ Called({"align", "alignRad"})
    /\ This0 # ofVec3d /\ Arg0(1) # ofVec3d
    /\ InDirectionOf(This0, Arg0(1))
    /\ call.nums[1] = I(0)
    => ret.bool

XAxis == IVec(1, 0, 0)
YAxis == IVec(0, 1, 0)
ZAxis == IVec(0, 0, 1)

\* C9 as claimed: getRotated(ax, ay, az) / rotate(ax, ay, az) equal the
\* single-axis rotations applied first about the x axis by ax, then about the
\* y axis by ay, then about the z axis by az.
C9_Claimed_XThenYThenZ ==
    Called({"getRotatedEuler", "rotateEuler"}) =>
        ret.vec = getRotated(getRotated(getRotated(This0, call.nums[1], XAxis),
                                        call.nums[2], YAxis),
                             call.nums[3], ZAxis)

\* C9: getRotated(ax, ay, az) / rotate(ax, ay, az) equal the single-axis
\* rotations applied first about the z axis by az, then about the y axis by
\* ay, then about the x axis by ax; rotate leaves that value in the receiver.
C9_EulerIsZThenYThenX ==
    Called({"getRotatedEuler", "rotateEuler"}) =>
        /\ ret.vec = getRotated(getRotated(getRotated(This0, call.nums[3], ZAxis),
                                           call.nums[2], YAxis),
                                call.nums[1], XAxis)
        /\ call.op = "rotateEuler" => mem[call.this] = ret.vec

C9_Witness ==
    /\ Called({"getRotatedEuler"})
    /\ This0 = IVec(1, 0, 0)
    /\ call.nums = <<I(90), I(0), I(90)>>
    /\ ret.vec = IVec(0, 0, 1)

\* C10: rotating (1,0,0) by 90 degrees about the axis (0,0,1), or about any
\* positive multiple of it such as (0,0,5), with getRotated/rotate yields
\* (0,1,0).
C10_QuarterTurnAboutZ ==
    /\ Called({"getRotated", "rotate"})
    /\ This0 = IVec(1, 0, 0)
    /\ call.nums[1] = I(90)
    /\ IsZero(Arg0(1).x) /\ IsZero(Arg0(1).y) /\ Greater(Arg0(1).z, I(0))
    => /\ ret.vec = IVec(0, 1, 0)
       /\ call.op = "rotate" => mem[call.this] = IVec(0, 1, 0)

C10_Witness ==
    /\ Called({"rotate"})
    /\ This0 = IVec(1, 0, 0) /\ call.nums[1] = I(90) /\ Arg0(1) = IVec(0, 0, 5)
    /\ mem[call.this] = IVec(0, 1, 0)

\* |a - b|
AbsDiff(a, b) == IF Less(a, b) THEN Sub(b, a) ELSE Sub(a, b)

\* C11: match(other, tol) is true exactly when |x-other.x| < tol and
\* |y-other.y| < tol and |z-other.z| < tol, each axis tested on its own with
\* strict less-than; (40,20,70) matches (40.01,19.999,70.05) at tolerance 0.1
\* and not at tolerance 0.01.
C11_MatchPerAxisStrict ==
    Called({"match"}) =>
        /\ ret.bool = (\A c \in {"x", "y", "z"} :
                          Less(AbsDiff(Comp(This0, c), Comp(Arg0(1), c)), call.nums[1]))
        /\ (/\ This0 = IVec(40, 20, 70)
            /\ Arg0(1) = Vec(Q(4001, 100), Q(19999, 1000), Q(7005, 100)))
           => /\ call.nums[1] = Q(1, 10) => ret.bool
              /\ call.nums[1] = Q(1, 100) => ~ret.bool

C11_Witness ==
    /\ Called({"match"})
    /\ This0 = IVec(40, 20, 70)
    /\ Arg0(1) = Vec(Q(4001, 100), Q(19999, 1000), Q(7005, 100))
    /\ call.nums[1] = Q(1, 10) /\ ret.bool

\* C12: for every vector v and every non-zero scalar s, (v * s) / s equals v.
C12_MulDivRoundTrip ==
    Called({"operator*f"}) /\ ~IsZero(call.nums[1]) =>
        operatorEq(operatorDivScalar(ret.vec, call.nums[1]), This0)

C12_Witness ==
    /\ Called({"operator*f"}) /\ call.nums[1] = I(-3)
    /\ This0 = IVec(1, -1, 1) /\ ret.vec = IVec(-3, 3, -3)

\* C13: a.getInterpolated(b, 0) equals a, a.getInterpolated(b, 1) equals b,
\* and for any p, inside or outside [0,1], the result of getInterpolated and
\* interpolate is a*(1-p) + b*p component-wise.
C13_InterpolatedIsWeightedSum ==
    Called({"getInterpolated", "interpolate"}) =>
        /\ call.nums[1] = I(0) => operatorEq(ret.vec, This0)
        /\ call.nums[1] = I(1) => operatorEq(ret.vec, Arg0(1))
        /\ ret.vec = operatorAdd(operatorMulScalar(This0, Sub(I(1), call.nums[1])),
                                 operatorMulScalar(Arg0(1), call.nums[1]))
        /\ call.op = "interpolate" => mem[call.this] = ret.vec

C13_Witness ==
    /\ Called({"interpolate"}) /\ call.nums[1] = I(2)
    /\ This0 = IVec(1, 0, -1) /\ Arg0(1) = IVec(0, 3, -1)
    /\ mem[call.this] = IVec(-1, 6, -1)

\* C18: for every scalar f and vector v, f + v == v + f and f * v == v * f,
\* while f - v is (f-v.x, f-v.y, f-v.z), the negation of v - f, and f / v is
\* (f/v.x, f/v.y, f/v.z), dividing by the components of v with no test for
\* zero.
C18_ScalarLeftOperators ==
    /\ Called({"f+v"}) =>
          operatorEq(ret.vec, operatorAddScalar(Arg0(1), call.nums[1]))
    /\ Called({"f*v"}) =>
          operatorEq(ret.vec, operatorMulScalar(Arg0(1), call.nums[1]))
    /\ Called({"f-v"}) =>
          /\ \A c \in {"x", "y", "z"} :
                Comp(ret.vec, c) = Sub(call.nums[1], Comp(Arg0(1), c))
          /\ ret.vec = operatorNeg(operatorSubScalar(Arg0(1), call.nums[1]))
    /\ Called({"f/v"}) =>
          \A c \in {"x", "y", "z"} :
             Comp(ret.vec, c) = Div(call.nums[1], Comp(Arg0(1), c))

\* f - v and f / v differ from the member forms v - f and v / f
C18_Witness ==
    /\ Called({"f-v", "f/v"}) /\ call.nums[1] = I(2) /\ Arg0(1) = IVec(1, 0, -1)
    /\ call.op = "f-v" =>
          /\ ret.vec = IVec(1, 2, 3)
          /\ operatorSubScalar(Arg0(1), call.nums[1]) = IVec(-1, -2, -3)
    /\ call.op = "f/v" =>
          /\ ret.vec = Vec(I(2), PInf, I(-2))
          /\ operatorDivScalar(Arg0(1), call.nums[1]) = Vec(Q(1, 2), I(0), Q(-1, 2))

\* the number of middle and interpolate calls made so far
Moves == Cardinality({ i \in DOMAIN hist : hist[i].op \in {"middle", "interpolate"} })

\* the documented positions of (0,5,0) after 1..4 calls towards (10,10,20)
ZenoSequence ==
    << Vec(I(5), Q(15, 2), I(10)), Vec(Q(15, 2), Q(35, 4), I(15)),
       Vec(Q(35, 4), Q(75, 8), Q(35, 2)), Vec(Q(75, 8), Q(155, 16), Q(75, 4)) >>

\* C14: getMiddle(pnt)/middle(pnt) give the same vector as
\* getInterpolated(pnt, 0.5)/interpolate(pnt, 0.5), and after any sequence of
\* n middle(pnt) or interpolate(pnt, 0.5) calls the receiver is at
\* pnt + (v0 - pnt)/2^n; from (0,5,0) towards (10,10,20) these are the
\* documented (5,7.5,10), (7.5,8.75,15), (8.75,9.375,17.5), (9.375,9.6875,18.75).
C14_MiddleIsInterpolateHalf ==
    /\ Called({"getMiddle", "middle"}) =>
          /\ ret.vec = getInterpolated(This0, Arg0(1), Q(1, 2))
          /\ call.op = "middle" => mem[call.this] = interpolate(old, call.this,
                                                               call.vecs[1], Q(1, 2))[call.this]
    /\ hist # <<>> =>
          /\ mem[hist[1].this] =
                operatorAdd(Rd(first, hist[1].vecs[1]),
                            operatorDivScalar(operatorSub(first[hist[1].this],
                                                          Rd(first, hist[1].vecs[1])),
                                              I(2 ^ Moves)))
          /\ (/\ first[hist[1].this] = IVec(0, 5, 0)
              /\ Rd(first, hist[1].vecs[1]) = IVec(10, 10, 20)
              /\ Moves \in 1..4)
             => mem[hist[1].this] = ZenoSequence[Moves]

C14_Witness ==
    /\ Called({"middle"})
    /\ Len(hist) = 4 /\ \A i \in 1..4 : hist[i].op = "middle"
    /\ first[call.this] = IVec(0, 5, 0) /\ Arg0(1) = IVec(10, 10, 20)
    /\ mem[call.this] = Vec(Q(75, 8), Q(155, 16), Q(75, 4))

\* C15: v.dot(w) equals w.dot(v), and v.getCrossed(w) equals
\* -(w.getCrossed(v)), for all (finite) v and w.
C15_DotCommutesCrossAnticommutes ==
    /\ Called({"dot"}) => Eq(ret.num, dot(Arg0(1), This0))
    /\ Called({"getCrossed"}) =>
          operatorEq(ret.vec, operatorNeg(getCrossed(Arg0(1), This0)))

C15_Witness ==
    /\ Called({"getCrossed"})
    /\ This0 = IVec(40, 20, 70) /\ Arg0(1) = IVec(0, 3, -1)
    /\ ret.vec = IVec(-230, 40, 120)
    /\ getCrossed(Arg0(1), This0) = IVec(230, -40, -120)

\* C16: v.getCrossed(v) is the zero vector, and v.cross(v), whose argument
\* is the receiver object itself, leaves v equal to the zero vector.
C16_SelfCrossIsZero ==
    /\ (Called({"getCrossed"}) /\ Arg0(1) = This0) => ret.vec = ofVec3d
    /\ (Called({"cross"}) /\ call.vecs[1] = Ref(call.this)) =>
          /\ mem[call.this] = ofVec3d
          /\ ret.vec = ofVec3d

C16_Witness ==
    /\ Called({"cross"})
    /\ call.vecs[1] = Ref(call.this)
    /\ This0 = IVec(40, 20, 70)
    /\ mem[call.this] = ofVec3d

\* the cross product of the receiver and the argument of the call
CrossOfCall == getCrossed(This0, Arg0(1))

\* C17: getPerpendicular(vec)/perpendicular(vec) give the cross product of
\* the receiver and vec divided by its length, a vector of length 1, and the
\* zero vector when the cross product has zero length (parallel,
\* anti-parallel or zero inputs); perpendicular leaves it in the receiver.
C17_PerpendicularIsUnitCross ==
    Called({"getPerpendicular", "perpendicular"}) =>
        /\ CrossOfCall = ofVec3d => ret.vec = ofVec3d
        /\ CrossOfCall # ofVec3d =>
              /\ ret.vec = Vec(Div(CrossOfCall.x, length(CrossOfCall)),
                               Div(CrossOfCall.y, length(CrossOfCall)),
                               Div(CrossOfCall.z, length(CrossOfCall)))
              /\ Eq(lengthSquared(ret.vec), I(1))
              /\ Eq(dot(ret.vec, This0), I(0)) /\ Eq(dot(ret.vec, Arg0(1)), I(0))
        /\ call.op = "perpendicular" => mem[call.this] = ret.vec
        /\ call.op = "getPerpendicular" => mem = old

C17_Witness ==
    \/ /\ Called({"perpendicular"})
       /\ This0 = IVec(1, 0, 0) /\ Arg0(1) = IVec(0, 3, -1)
       /\ mem[call.this] = Vec(I(0), Mk(1, 10, 10), Mk(3, 10, 10))
    \/ /\ Called({"getPerpendicular"})
       /\ This0 = IVec(1, -1, 0) /\ Arg0(1) = IVec(-1, 1, 0)
       /\ ret.vec = ofVec3d

\* origin + v.x*vx + v.y*vy + v.z*vz for the receiver and arguments of the call
MappedOfCall ==
    operatorAdd(operatorAdd(operatorAdd(Arg0(1), operatorMulScalar(Arg0(2), This0.x)),
                            operatorMulScalar(Arg0(3), This0.y)),
                operatorMulScalar(Arg0(4), This0.z))

\* C19: getMapped/map give origin + v.x*vx + v.y*vy + v.z*vz component by
\* component, with vx, vy, vz taken as they are (not normalized, not
\* orthogonalized); with origin (0,0,0) and the basis (1,0,0), (0,1,0),
\* (0,0,1) the result is v.
C19_MappedIsAffineCombination ==
    /\ Called({"getMapped"}) => ret.vec = MappedOfCall /\ mem = old
    /\ Called({"map"}) => mem[call.this] = MappedOfCall /\ ret.vec = MappedOfCall
    /\ (/\ Called({"getMapped", "map"})
        /\ Arg0(1) = ofVec3d
        /\ Arg0(2) = IVec(1, 0, 0) /\ Arg0(3) = IVec(0, 1, 0) /\ Arg0(4) = IVec(0, 0, 1))
       => ret.vec = This0

C19_Witness ==
    \/ /\ Called({"map"})
       /\ This0 = IVec(2, -1, 1)
       /\ call.vecs = <<Ref(call.this), Tmp(IVec(0, 2, 0)), Tmp(IVec(1, 1, 0)),
                        Tmp(IVec(0, 0, -1))>>
       /\ mem[call.this] = IVec(1, 2, 0)
    \/ /\ Called({"getMapped"})
       /\ This0 = IVec(2, -1, 1)
       /\ call.vecs = <<Tmp(ofVec3d), Tmp(IVec(1, 0, 0)), Tmp(IVec(0, 1, 0)),
                        Tmp(IVec(0, 0, 1))>>
       /\ ret.vec = IVec(2, -1, 1)

\* a vector was written to the stream and then read back from it
WrittenThenRead ==
    /\ pc = "done"
    /\ Len(hist) = 2
    /\ hist[1].op = "operator<<" /\ hist[2].op = "operator>>"

\* C20 (as claimed): operator<< writes the text "x, y, z", and operator>>
\* reading that text back (a scalar, two characters skipped, a scalar, two
\* characters skipped, a scalar) gives a vector equal to the one written.
C20_Claimed_ReadBackEqualsWritten ==
    /\ Called({"operator<<"}) =>
          stream.text = FormatDouble(This0.x) \o <<",", " ">> \o FormatDouble(This0.y)
                            \o <<",", " ">> \o FormatDouble(This0.z)
    /\ WrittenThenRead => operatorEq(mem[hist[2].this], first[hist[1].this])

\* the first call made reads a vector from the text the stream was
\* constructed with
ReadFromText(texts) ==
    /\ Called({"operator>>"})
    /\ Len(hist) = 1
    /\ stream.text \in texts

\* C21 (as claimed): operator>> reading a text whose separators are not two
\* characters wide, or a text of fewer than three scalars, leaves the
\* stream with its failbit set.
C21_Claimed_MalformedTextFails ==
    ReadFromText(MalformedTexts \cup ShortTexts) => stream.fail

\* C22: getRotated(angle, pivot, axis) equals
\* (v - pivot).getRotated(angle, axis) + pivot, so a point equal to the
\* pivot is returned unmoved for every angle and axis.
C22_PivotRotationIsShiftedRotation ==
    Called({"getRotatedPivot"}) =>
        /\ ret.vec = operatorAdd(getRotated(operatorSub(This0, Arg0(1)),
                                            call.nums[1], Arg0(2)),
                                 Arg0(1))
        /\ This0 = Arg0(1) => ret.vec = This0
        /\ mem = old

C22_Witness ==
    \/ /\ Called({"getRotatedPivot"})
       /\ This0 = IVec(2, -1, 1) /\ Arg0(1) = IVec(1, -1, 2)
       /\ Arg0(2) = IVec(0, 0, 1) /\ call.nums[1] = I(90)
       /\ ret.vec = IVec(1, 0, 1)
    \/ /\ Called({"getRotatedPivot"})
       /\ call.vecs[1] = Ref(call.this)
       /\ This0 = IVec(2, -1, 1) /\ call.nums[1] = I(90)
       /\ ret.vec = IVec(2, -1, 1)

\* C24 (as claimed): rotate(angle, pivot, axis) called with the receiver
\* itself as the pivot leaves the receiver equal to what
\* getRotated(angle, pivot, axis) returns for the same values, that is,
\* equal to its value before the call.
C24_Claimed_RotateAboutItselfKeepsValue ==
    (Called({"rotatePivot"}) /\ call.vecs[1] = Ref(call.this)) =>
        /\ mem[call.this] = getRotatedPivot(This0, call.nums[1], This0, Arg0(2))
        /\ mem[call.this] = This0

\* the sum of the first n vectors of the array as they were before the call
RECURSIVE SumOfPoints(_)
SumOfPoints(n) ==
    IF n = 0 THEN ofVec3d ELSE operatorAdd(SumOfPoints(n - 1), Arg0(n))

\* the component-wise mean of the first num points as they were before the call
MeanOfPoints == operatorDivScalar(SumOfPoints(call.nums[1].n), call.nums[1])

\* the receiver of the call is an element among the first num of the array
ReceiverAmongPoints ==
    \E i \in 1..call.nums[1].n : call.vecs[i] = Ref(call.this)

\* C23 (as claimed): for every array of num >= 1 points, average(points, num)
\* leaves the receiver at the component-wise mean of the points, whatever
\* the receiver held before, and returns the receiver.
C23_Claimed_AverageIsMean ==
    (Called({"average"}) /\ call.nums[1].n >= 1) =>
        /\ mem[call.this] = MeanOfPoints
        /\ ret.vec = mem[call.this]

\* C25 (as claimed): when the receiver is one of the points, the receiver
\* ends at the component-wise mean of the values the points held before the
\* call.
C25_Claimed_AverageWithReceiverAmongPoints ==
    (Called({"average"}) /\ call.nums[1].n >= 1 /\ ReceiverAmongPoints) =>
        mem[call.this] = MeanOfPoints

\* C26: after limit(max) or getLimited(max), for every v and every max (zero
\* and negative max too), the squared length of the result is at most
\* max*max, and limiting the result again with the same max changes nothing.
C26_LimitBoundsAndIsIdempotent ==
    Called({"getLimited", "limit"}) =>
        /\ ~Greater(lengthSquared(ret.vec), Mul(call.nums[1], call.nums[1]))
        /\ getLimited(ret.vec, call.nums[1]) = ret.vec
        /\ call.op = "limit" =>
              /\ mem[call.this] = ret.vec
              /\ limit(mem, call.this, call.nums[1]) = mem

C26_Witness ==
    \/ /\ Called({"limit"}) /\ call.nums[1] = I(-1)
       /\ This0 = IVec(2, 2, -1)
       /\ mem[call.this] = Vec(Q(-2, 3), Q(-2, 3), Q(1, 3))
       /\ limit(mem, call.this, I(-1)) = mem
    \/ /\ Called({"getLimited"}) /\ call.nums[1] = I(0)
       /\ This0 = IVec(2, 2, -1)
       /\ ret.vec = ofVec3d

\* C27: v.match(v, tol) is true for every (finite) v when tol > 0 and false
\* for every v when tol <= 0, and v.match(w, tol) equals w.match(v, tol) for
\* every tolerance.
C27_MatchReflexiveForPositiveTolerance ==
    Called({"match"}) =>
        /\ Arg0(1) = This0 => ret.bool = Greater(call.nums[1], I(0))
        /\ ret.bool = match(Arg0(1), This0, call.nums[1])
        /\ ~Greater(call.nums[1], I(0)) => ~ret.bool

C27_Witness ==
    \/ /\ Called({"match"}) /\ call.vecs[1] = Ref(call.this)
       /\ This0 = IVec(40, 20, 70) /\ call.nums[1] = I(0) /\ ~ret.bool
    \/ /\ Called({"match"}) /\ call.vecs[1] = Ref(call.this)
       /\ This0 = IVec(40, 20, 70) /\ call.nums[1] = Q(1, 100) /\ ret.bool
    \/ /\ Called({"match"}) /\ Arg0(1) # This0
       /\ call.nums[1] = I(1) /\ ret.bool /\ match(Arg0(1), This0, I(1))

\* the member functions declared const, and the free operators
NonMutatingOps ==
    { "operator+", "operator-", "operator*", "operator/", "operator-()",
      "operator+f", "operator-f", "operator*f", "operator/f",
      "f+v", "f-v", "f*v", "f/v",
      "getScaled", "getRotated", "getRotatedEuler", "getRotatedPivot", "getMapped",
      "getInterpolated", "getMiddle", "getNormalized", "getLimited", "getCrossed",
      "getPerpendicular", "dot", "length", "distance", "match", "angle", "angleRad",
      "isAligned", "align", "isAlignedRad", "alignRad" }

\* the member functions that assign to x, y, z
MutatingOps ==
    { "operator+=", "operator-=", "operator*=", "operator/=", "operator/=f",
      "scale", "rotate", "rotateEuler", "rotatePivot", "map", "interpolate", "middle",
      "average", "normalize", "limit", "cross", "perpendicular" }

====
